---- MODULE Spec2Model ----
(***************************************************************************)
(* A model of slimfmt (8ightfold/slimfmt): the runtime format engine       *)
(* (Formatter), its argument values (FmtValue), the radix renderers        *)
(* (IntFormat<Base>) and the character buffer the engine writes to.        *)
(*                                                                         *)
(* Bytes are the naturals 0..255 and a string is a sequence of bytes.      *)
(* A 64-bit word is a sequence of eight bytes, most significant first, so  *)
(* that every intermediate value stays inside TLC's integers while the     *)
(* words keep their width.                                                 *)
(***************************************************************************)
EXTENDS Integers, Sequences, FiniteSets, TLC

VARIABLES
  entry,             \* the entry point that runs: "parseWith", "format",
                     \* or "format_custom" (the RadixInt bridge)
  lit,               \* the characters of the format literal (no terminator)
  Values,            \* the FmtValue::List handed to parseWith
  FormatString,      \* Formatter::FormatString, the unread rest
  ParsedReplacement, \* Formatter::ParsedReplacement
  Buf,               \* the SmallBuf the formatter appends to
  Vs,                \* FmtValueSpan: how many of Values were taken
  pc,                \* position inside the running entry point
  diag,              \* whether a dbgassert has fired
  segs,              \* history: one record per dispatched segment
  result,            \* the std::string format() returned
  IRad,              \* the RadixInt handed to format_custom
  BridgeBuf,         \* format_custom's local SmallBuf<128>
  BridgeCount,       \* formatCustomBridgeN's local Count
  Bufs,              \* testBuf: the SmallBuf objects Buf and OtherBuf
  Heap,              \* testBuf: every block new char[] has returned
  Fault,             \* testBuf: an access outside live storage happened
  Last,              \* history: the last buffer call and what preceded it
  Pushed,            \* history: per buffer, the bytes pushed and appended
  Ops                \* history: how many buffer calls were made

vars == <<entry, lit, Values, FormatString, ParsedReplacement, Buf, Vs, pc,
          diag, segs, result, IRad, BridgeBuf, BridgeCount, Bufs, Heap,
          Fault, Last, Pushed, Ops>>

bufVars == <<Bufs, Heap, Fault, Last, Pushed, Ops>>

fmtVars == <<FormatString, ParsedReplacement, Vs, segs, result>>

inputVars == <<entry, lit, Values, IRad>>

-----------------------------------------------------------------------------
(* Characters.  Ascii[i] is the character with code 31 + i (the grave      *)
(* accent, code 96, cannot be written in a string and is spelled out).     *)

Ascii ==
  << " ", "!", "\"", "#", "$", "%", "&", "'", "(", ")", "*", "+", ",", "-",
     ".", "/", "0", "1", "2", "3", "4", "5", "6", "7", "8", "9", ":", ";",
     "<", "=", ">", "?", "@", "A", "B", "C", "D", "E", "F", "G", "H", "I",
     "J", "K", "L", "M", "N", "O", "P", "Q", "R", "S", "T", "U", "V", "W",
     "X", "Y", "Z", "[", "\\", "]", "^", "_", "GRAVE", "a", "b", "c", "d", "e",
     "f", "g", "h", "i", "j", "k", "l", "m", "n", "o", "p", "q", "r", "s",
     "t", "u", "v", "w", "x", "y", "z", "{", "|", "}", "~" >>

\* The code of every character of Ascii
OrdTable ==
  [c \in {Ascii[i] : i \in 1..Len(Ascii)} |->
     31 + (CHOOSE i \in 1..Len(Ascii) : Ascii[i] = c)]

Ord(c) == OrdTable[c]

\* The bytes of a literal written as a tuple of one-character strings.
Str(t) == [i \in 1..Len(t) |-> Ord(t[i])]

Min(a, b) == IF a < b THEN a ELSE b
Max(a, b) == IF a < b THEN b ELSE a

Repeat(c, n) == [i \in 1..n |-> c]

isDigit(c) == c >= Ord("0") /\ c <= Ord("9")
isUpper(c) == c >= Ord("A") /\ c <= Ord("Z")
isLower(c) == c >= Ord("a") /\ c <= Ord("z")
isAlpha(c) == isUpper(c) \/ isLower(c)

-----------------------------------------------------------------------------
(* 64-bit words: eight bytes, most significant first.                      *)

Zero64 == <<0, 0, 0, 0, 0, 0, 0, 0>>

\* The word of a natural n < 2^31.
U64(n) ==
  <<0, 0, 0, 0, (n \div 16777216) % 256, (n \div 65536) % 256,
    (n \div 256) % 256, n % 256>>

IsZero64(v) == v = Zero64

\* v < n, for a natural n < 2^24.
LtSmall(v, n) ==
  /\ \A i \in 1..5 : v[i] = 0
  /\ (v[6] * 65536) + (v[7] * 256) + v[8] < n

\* The natural value of a word known to be below 2^24.
Small(v) == (v[6] * 65536) + (v[7] * 256) + v[8]

\* v < w as unsigned words.
RECURSIVE LtFrom(_, _, _)
LtFrom(v, w, i) ==
  IF i > 8 THEN FALSE
  ELSE IF v[i] # w[i] THEN v[i] < w[i]
  ELSE LtFrom(v, w, i + 1)

Lt64(v, w) == LtFrom(v, w, 1)

\* Long division of a word by a natural 0 < d < 2^23, byte by byte from
\* the most significant one: the eight quotient bytes, then the remainder.
DivMod64(v, d) ==
  LET c1 == v[1]
      c2 == ((c1 % d) * 256) + v[2]
      c3 == ((c2 % d) * 256) + v[3]
      c4 == ((c3 % d) * 256) + v[4]
      c5 == ((c4 % d) * 256) + v[5]
      c6 == ((c5 % d) * 256) + v[6]
      c7 == ((c6 % d) * 256) + v[7]
      c8 == ((c7 % d) * 256) + v[8]
  IN  <<c1 \div d, c2 \div d, c3 \div d, c4 \div d,
        c5 \div d, c6 \div d, c7 \div d, c8 \div d, c8 % d>>

Div64(v, d) == SubSeq(DivMod64(v, d), 1, 8)
Mod64(v, d) == DivMod64(v, d)[9]

\* Two's complement negation, mod 2^64: the complement of each byte, plus
\* one, from the least significant byte with the carry of the one before.
Neg64(v) ==
  LET s8 == (255 - v[8]) + 1
      s7 == (255 - v[7]) + (s8 \div 256)
      s6 == (255 - v[6]) + (s7 \div 256)
      s5 == (255 - v[5]) + (s6 \div 256)
      s4 == (255 - v[4]) + (s5 \div 256)
      s3 == (255 - v[3]) + (s4 \div 256)
      s2 == (255 - v[2]) + (s3 \div 256)
      s1 == (255 - v[1]) + (s2 \div 256)
      low == <<s8 % 256, s7 % 256, s6 % 256, s5 % 256,
               s4 % 256, s3 % 256, s2 % 256, s1 % 256>>
  IN  [i \in 1..8 |-> low[9 - i]]

\* The sign bit of a word read as a long long.
IsNeg64(v) == v[1] >= 128

\* v * m + a for naturals m, a < 2^22, mod 2^64: the bytes from the least
\* significant one, each with the carry of the one before it.
MulAdd64(v, m, a) ==
  LET s8 == (v[8] * m) + a
      s7 == (v[7] * m) + (s8 \div 256)
      s6 == (v[6] * m) + (s7 \div 256)
      s5 == (v[5] * m) + (s6 \div 256)
      s4 == (v[4] * m) + (s5 \div 256)
      s3 == (v[3] * m) + (s4 \div 256)
      s2 == (v[2] * m) + (s3 \div 256)
      s1 == (v[1] * m) + (s2 \div 256)
      low == <<s8 % 256, s7 % 256, s6 % 256, s5 % 256,
               s4 % 256, s3 % 256, s2 % 256, s1 % 256>>
  IN  [i \in 1..8 |-> low[9 - i]]

\* Position of the highest set bit of a byte 1..255 (0 for 1, 7 for 128..255).
RECURSIVE BitLog(_)
BitLog(b) == IF b <= 1 THEN 0 ELSE 1 + BitLog(b \div 2)

LLONG_MIN == <<128, 0, 0, 0, 0, 0, 0, 0>>

-----------------------------------------------------------------------------
(* SmallBufImpl, as the formatter uses it: Bytes are the bytes [0, Size).  *)

\* SmallBuf<N>(): inline storage of N bytes; N = 0 is promoted to a heap
\* block of capacity 1 (DynBuf::tweakBuffer).
NewSmallBuf(N) ==
  [Bytes |-> <<>>, Capacity |-> IF N = 0 THEN 1 ELSE N, Inlined |-> N # 0]

size(b) == Len(b.Bytes)

tryReserve(b, Cap) ==
  IF Cap <= b.Capacity THEN b
  ELSE [b EXCEPT !.Capacity = Max(b.Capacity * 2, Cap), !.Inlined = FALSE]

pushBack(b, Val) ==
  LET r == tryReserve(b, size(b) + 1)
  IN  [r EXCEPT !.Bytes = Append(@, Val)]

append(b, s) ==
  IF Len(s) = 0 THEN b
  ELSE LET r == tryReserve(b, size(b) + Len(s))
       IN  [r EXCEPT !.Bytes = @ \o s]

\* tryResize(Count, Fill): tryResizeForFill (reserve, set the size), then
\* memset of the new tail when the buffer grew.
tryResizeFill(b, Count, Fill) ==
  LET r == tryReserve(b, Count)
      n == Min(Count, r.Capacity)
  IN  IF Count > size(b)
      THEN [r EXCEPT !.Bytes = @ \o Repeat(Fill, n - size(b))]
      ELSE [r EXCEPT !.Bytes = SubSeq(@, 1, n)]

fill(b, Count, Fill) == tryResizeFill(b, size(b) + Count, Fill)

reserveBack(b, Count) == tryReserve(b, size(b) + Count)

-----------------------------------------------------------------------------
(* The radix renderers IntFormat<Base>, Base in 1..32.                     *)

baseLog2LUT ==
  <<0, 1, 1, 2, 2, 2, 2, 3,
    3, 3, 3, 3, 3, 3, 3, 4,
    4, 4, 4, 4, 4, 4, 4, 4,
    4, 4, 4, 4, 4, 4, 4, 5>>

\* BaseTraits<Base>::shiftCount (baseLog2LUT[Base], the table less its
\* entry for 0).
shiftCount(Base) == baseLog2LUT[Base]

RECURSIVE Pow(_, _)
Pow(b, n) == IF n = 0 THEN 1 ELSE b * Pow(b, n - 1)

\* b^n by squaring
RECURSIVE Power(_, _)
Power(b, n) ==
  IF n = 0 THEN 1
  ELSE LET h == Power(b, n \div 2)
       IN  IF n % 2 = 0 THEN h * h ELSE h * h * b

isValidPow2(Base) == Base \in {2, 4, 8, 16, 32}

DigitsLower == Str(<<"0", "1", "2", "3", "4", "5", "6", "7", "8", "9",
                     "a", "b", "c", "d", "e", "f", "g", "h", "i", "j",
                     "k", "l", "m", "n", "o", "p", "q", "r", "s", "t",
                     "u", "v", "w", "x", "y", "z">>)

DigitsUpper == Str(<<"0", "1", "2", "3", "4", "5", "6", "7", "8", "9",
                     "A", "B", "C", "D", "E", "F", "G", "H", "I", "J",
                     "K", "L", "M", "N", "O", "P", "Q", "R", "S", "T",
                     "U", "V", "W", "X", "Y", "Z">>)

\* A digit writer that ignores the choice of alphabet
DigitChar_lower(Digit, Arith, Upper) ==
  IF Arith THEN Ord("0") + Digit ELSE DigitsLower[Digit + 1]

\* One digit: '0' + Digit when the renderer takes that branch, else
\* Digits[Digit] from the alphabet Upper selects.
DigitChar(Digit, Arith, Upper) ==
  IF Arith THEN Ord("0") + Digit
  ELSE IF Upper THEN DigitsUpper[Digit + 1] ELSE DigitsLower[Digit + 1]

\* GIntFormat<Base>::Count: the loop leaves at the first power above V and
\* goes round (V /= pow4, Total += 4) when V is not below pow4, the
\* largest of the four.
RECURSIVE GCountFrom(_, _, _)
GCountFrom(V, Base, Total) ==
  IF ~LtSmall(V, Pow(Base, 4))
  THEN GCountFrom(Div64(V, Pow(Base, 4)), Base, Total + 4)
  ELSE IF LtSmall(V, Pow(Base, 1)) THEN Total
  ELSE IF LtSmall(V, Pow(Base, 2)) THEN Total + 1
  ELSE IF LtSmall(V, Pow(Base, 3)) THEN Total + 2
  ELSE Total + 3

GIntCount(V, Base) == GCountFrom(V, Base, 1)

\* The digit loops of the writers are run StepLen(Base) iterations at a
\* time, as many as keep Base^StepLen within 2^20: Low is the value of the
\* digits these iterations write (V % Base^StepLen) and n the number of
\* iterations that run, the most significant digit first.
StepLen(Base) == 20 \div (BitLog(Base - 1) + 1)

LowDigits(Low, n, Base, Arith, Upper) ==
  [j \in 1..n |->
     DigitChar((Low \div Power(Base, n - j)) % Base, Arith, Upper)]

\* The iterations a loop "while (V != 0) { ...; V /= Base; }" runs on a
\* value below Base^StepLen
LowLen(Low, Base) ==
  Cardinality({j \in 1..StepLen(Base) : Low >= Power(Base, j - 1)})

\* GIntFormat<Base>::Write: the bytes between Out and End. The loop runs
\* while V != 0, so that it writes nothing for 0.
RECURSIVE GIntDigits(_, _, _)
GIntDigits(V, Base, Upper) ==
  LET Step == Power(Base, StepLen(Base))
      Low  == Mod64(V, Step)
      Rest == Div64(V, Step)
  IN  IF IsZero64(Rest)
      THEN LowDigits(Low, LowLen(Low, Base), Base, Base <= 10, Upper)
      ELSE GIntDigits(Rest, Base, Upper)
             \o LowDigits(Low, StepLen(Base), Base, Base <= 10, Upper)

\* intLog2(V) = 63 - clzll(V | 1)
RECURSIVE intLog2From(_, _)
intLog2From(V, i) ==
  IF i = 8 THEN BitLog(V[8])
  ELSE IF V[i] # 0 THEN ((8 - i) * 8) + BitLog(V[i])
  ELSE intLog2From(V, i + 1)

intLog2(V) == intLog2From(V, 1)

\* IntFormat<Base> for the powers of two: Count
Pow2Count(V, Base) == (intLog2(V) \div shiftCount(Base)) + 1

\* IntFormat<Base> for the powers of two: Write is a do-while over
\* V & Mask, V >>= shiftCount, so that it writes one digit for 0.
RECURSIVE Pow2Digits(_, _, _)
Pow2Digits(V, Base, Upper) ==
  LET Step == Power(Base, StepLen(Base))
      Low  == Mod64(V, Step)
      Rest == Div64(V, Step)
  IN  IF IsZero64(Rest)
      THEN LowDigits(Low, Max(1, LowLen(Low, Base)), Base, Base < 10, Upper)
      ELSE Pow2Digits(Rest, Base, Upper)
             \o LowDigits(Low, StepLen(Base), Base, Base < 10, Upper)

\* IntFormat<10>::Count
LogTable ==
  <<1, 1, 1, 2, 2, 2, 3, 3, 3, 4, 4, 4, 4,
    5, 5, 5, 6, 6, 6, 7, 7, 7, 7, 8, 8, 8, 9, 9, 9,
    10, 10, 10, 10, 11, 11, 11, 12, 12, 12,
    13, 13, 13, 13, 14, 14, 14, 15, 15, 15, 16, 16, 16, 16,
    17, 17, 17, 18, 18, 18, 19, 19, 19, 19, 20>>

\* The words of 0, 0, 10, 100, ..., 10^19 (the table is indexed from 0)
ZeroOrPow10 ==
  <<
    <<  0,   0,   0,   0,   0,   0,   0,   0>>,  \* 0
    <<  0,   0,   0,   0,   0,   0,   0,   0>>,  \* 0
    <<  0,   0,   0,   0,   0,   0,   0,  10>>,  \* 10
    <<  0,   0,   0,   0,   0,   0,   0, 100>>,  \* 100
    <<  0,   0,   0,   0,   0,   0,   3, 232>>,  \* 1000
    <<  0,   0,   0,   0,   0,   0,  39,  16>>,  \* 10000
    <<  0,   0,   0,   0,   0,   1, 134, 160>>,  \* 100000
    <<  0,   0,   0,   0,   0,  15,  66,  64>>,  \* 1000000
    <<  0,   0,   0,   0,   0, 152, 150, 128>>,  \* 10000000
    <<  0,   0,   0,   0,   5, 245, 225,   0>>,  \* 100000000
    <<  0,   0,   0,   0,  59, 154, 202,   0>>,  \* 1000000000
    <<  0,   0,   0,   2,  84,  11, 228,   0>>,  \* 10000000000
    <<  0,   0,   0,  23,  72, 118, 232,   0>>,  \* 100000000000
    <<  0,   0,   0, 232, 212, 165,  16,   0>>,  \* 1000000000000
    <<  0,   0,   9,  24,  78, 114, 160,   0>>,  \* 10000000000000
    <<  0,   0,  90, 243,  16, 122,  64,   0>>,  \* 100000000000000
    <<  0,   3, 141, 126, 164, 198, 128,   0>>,  \* 1000000000000000
    <<  0,  35, 134, 242, 111, 193,   0,   0>>,  \* 10000000000000000
    <<  1,  99,  69, 120,  93, 138,   0,   0>>,  \* 100000000000000000
    << 13, 224, 182, 179, 167, 100,   0,   0>>,  \* 1000000000000000000
    <<138, 199,  35,   4, 137, 232,   0,   0>>  \* 10000000000000000000
  >>

DecCount(V) ==
  LET Out == LogTable[intLog2(V) + 1]
  IN  Out - (IF Lt64(V, ZeroOrPow10[Out + 1]) THEN 1 ELSE 0)

\* IntFormat<10>::DigitsGroup: the two characters of Value in 0..99
DigitsGroup(Value) == <<Ord("0") + (Value \div 10), Ord("0") + (Value % 10)>>

\* IntFormat<10>::Write: groups of 100, then one or two leading digits
RECURSIVE DecDigits(_)
DecDigits(V) ==
  IF ~LtSmall(V, 100)
  THEN DecDigits(Div64(V, 100)) \o DigitsGroup(Mod64(V, 100))
  ELSE IF LtSmall(V, 10) THEN <<Ord("0") + Small(V)>>
  ELSE DigitsGroup(Small(V))

\* IntFormat<1>::Count: (V <= 64) ? (V | 1) : (64 + 3)
UnaryCount(V) ==
  IF LtSmall(V, 65)
  THEN (IF Small(V) % 2 = 0 THEN Small(V) + 1 ELSE Small(V))
  ELSE 64 + 3

\* IntFormat<1>::Write
UnaryWrite(b, V) ==
  IF IsZero64(V) THEN pushBack(b, Ord("0"))
  ELSE LET Off == IF LtSmall(V, 65) THEN Small(V) ELSE 64
           b1  == append(b, Repeat(Ord("1"), Off))
       IN  IF ~LtSmall(V, 65) THEN append(b1, Repeat(Ord("."), 3)) ELSE b1

\* IntFormat<Base>::Count(V), by the specialization the template selects
IntFormatCount(Base, V) ==
  IF Base = 1 THEN UnaryCount(V)
  ELSE IF Base = 10 THEN DecCount(V)
  ELSE IF isValidPow2(Base) THEN Pow2Count(V, Base)
  ELSE GIntCount(V, Base)

\* IntFormat<Base>::Write(Buf, V, Upper): the buffer after the call
IntFormatWrite(Base, b, V, Upper) ==
  IF Base = 1 THEN UnaryWrite(b, V)
  ELSE IF Base = 10 THEN append(b, DecDigits(V))
  ELSE IF isValidPow2(Base) THEN append(b, Pow2Digits(V, Base, Upper))
  ELSE append(b, GIntDigits(V, Base, Upper))

-----------------------------------------------------------------------------
(* FmtValue: the tagged argument.  Every value carries the same fields;    *)
(* Int is the 64-bit pattern of an integer or an address, Chr the char,    *)
(* Str the characters of a string, Null whether the C string (or the       *)
(* string a generic wraps) is a null pointer.                              *)

FmtValue(Type, W, Chr, S, Null) ==
  [Type |-> Type, Int |-> W, Chr |-> Chr, Str |-> S, Null |-> Null]

CharValue(c)        == FmtValue("CharType", Zero64, c, <<>>, FALSE)
SignedValue(w)      == FmtValue("SignedType", w, 0, <<>>, FALSE)
UnsignedValue(w)    == FmtValue("UnsignedType", w, 0, <<>>, FALSE)
SignedLLValue(w)    == FmtValue("SignedLLType", w, 0, <<>>, FALSE)
UnsignedLLValue(w)  == FmtValue("UnsignedLLType", w, 0, <<>>, FALSE)
PtrValue(w)         == FmtValue("PtrType", w, 0, <<>>, FALSE)
CStringValue(w, t)  == FmtValue("CStringType", w, 0, t, FALSE)
NullCString         == FmtValue("CStringType", Zero64, 0, <<>>, TRUE)
StdStringValue(t)   == FmtValue("StdStringType", Zero64, 0, t, FALSE)
StringViewValue(t)  == FmtValue("StringViewType", Zero64, 0, t, FALSE)
\* AnyFmt over the driver's CustomType {const char* Str}
GenericValue(t, n)  == FmtValue("GenericType", Zero64, 0, t, n)

isSIntType(v, Permissive) ==
  (Permissive /\ v.Type = "CharType")
    \/ v.Type \in {"SignedType", "SignedLLType"}

isUIntType(v, Permissive) ==
  (Permissive /\ v.Type = "CharType")
    \/ v.Type \in {"UnsignedType", "UnsignedLLType"}

isIntType(v, Permissive) ==
  (Permissive /\ v.Type = "CharType")
    \/ v.Type \in {"SignedType", "UnsignedType",
                   "SignedLLType", "UnsignedLLType"}

isStrType(v, Permissive) ==
  (Permissive /\ v.Type = "CharType")
    \/ v.Type \in {"CStringType", "StdStringType", "StringViewType"}

isCharType(v, Permissive) ==
  IF ~Permissive THEN v.Type = "CharType" ELSE isStrType(v, FALSE)

isPtrType(v, Permissive) ==
  (Permissive /\ v.Type = "CStringType") \/ v.Type = "PtrType"

isGenericType(v) == v.Type = "GenericType"

\* getInt / getUInt: the 64-bit pattern (the two differ in the C++ type only)
getInt(v, Permissive) ==
  IF ~isIntType(v, Permissive) THEN Zero64
  ELSE IF v.Type = "CharType" THEN U64(v.Chr)
  ELSE v.Int

getUInt(v, Permissive) == getInt(v, Permissive)

\* getChar: '\0' on a mismatch; *Str of an empty C string is its terminator
getChar(v, Permissive) ==
  IF ~isCharType(v, Permissive) THEN 0
  ELSE IF v.Type = "CharType" THEN v.Chr
  ELSE IF v.Type = "CStringType"
       THEN (IF v.Null THEN Ord(" ") ELSE
             IF Len(v.Str) = 0 THEN 0 ELSE v.Str[1])
  ELSE IF Len(v.Str) = 0 THEN Ord(" ") ELSE v.Str[1]

\* getStr: [Null, Str]; a mismatch gives {nullptr, 0}
getStr(v, Permissive) ==
  IF ~isStrType(v, Permissive) THEN [Null |-> TRUE, Str |-> <<>>]
  ELSE IF v.Type = "CharType" THEN [Null |-> FALSE, Str |-> <<v.Chr>>]
  ELSE IF v.Type = "CStringType"
       THEN [Null |-> v.Null, Str |-> IF v.Null THEN <<>> ELSE v.Str]
  ELSE [Null |-> FALSE, Str |-> v.Str]

\* getPtr: the address as a word
getPtr(v, Permissive) ==
  IF ~isPtrType(v, Permissive) THEN Zero64 ELSE v.Int

-----------------------------------------------------------------------------
(* Formatter: width prediction, the writers and formatValue.  A field's    *)
(* descriptor is a record [Type, Data, Base, Extra, Side, Align, Pad];     *)
(* size_t widths are naturals and ~size_t(0) is dynamicAlign.              *)

dynamicAlign == -1

InvalidBase == -1

\* FmtReplacement(): the Empty descriptor
EmptyReplacement ==
  [Type |-> "Empty", Data |-> <<>>, Base |-> 10, Extra |-> "None",
   Side |-> "Left", Align |-> 0, Pad |-> 0]

\* FmtReplacement(StrView Str)
LiteralReplacement(Data) == [EmptyReplacement EXCEPT !.Type = "Literal",
                                                    !.Data = Data]

\* FmtReplacement(Spec, Base, Extra, Side, Align, Pad)
FormatReplacement(Data, Base, Extra, Side, Align, Pad) ==
  [Type |-> "Format", Data |-> Data, Base |-> Base, Extra |-> Extra,
   Side |-> Side, Align |-> Align, Pad |-> Pad]

\* std::llabs on a long long pattern; at LLONG_MIN the result is not
\* representable (undefined behaviour): see LlabsOverflows.
llabs(Value) == IF IsNeg64(Value) THEN Neg64(Value) ELSE Value

LlabsOverflows(Value) == Value = LLONG_MIN

\* countDigitsDispatch -> baseDispatch: case 1..32, default 0
countDigitsDispatch(Value, Base) ==
  IF Base \in 1..32 THEN IntFormatCount(Base, Value) ELSE 0

\* Formatter::CountDigits(long long, BaseSink)
CountDigitsLL(Value, Base) ==
  countDigitsDispatch(llabs(Value), Base) + (IF IsNeg64(Value) THEN 1 ELSE 0)

\* Formatter::CountDigits(unsigned long long, BaseSink)
CountDigitsULL(Value, Base) == countDigitsDispatch(Value, Base)

getValueSize(Value, Spec) ==
  IF isGenericType(Value) THEN 0
  ELSE IF isSIntType(Value, FALSE)
       THEN CountDigitsLL(getInt(Value, FALSE), Spec.Base)
  ELSE IF isUIntType(Value, FALSE)
       THEN CountDigitsULL(getUInt(Value, FALSE), Spec.Base)
  ELSE IF isPtrType(Value, Spec.Extra = "Ptr")
       THEN countDigitsDispatch(getPtr(Value, TRUE), Spec.Base) + 2
  ELSE IF isCharType(Value, FALSE) THEN 1
  ELSE IF Spec.Extra = "Char" THEN 1
  ELSE Len(getStr(Value, FALSE).Str)

\* What a writer leaves: the buffer, its return value, whether a dbgassert
\* fired, and whether control reached SLIMFMT_UNREACHABLE.
Wrote(b, Ret, Diag) == [Buf |-> b, Ret |-> Ret, Diag |-> Diag, UB |-> FALSE]

\* Formatter::write(unsigned long long)
writeULL(b, Value, Spec) ==
  IF IsZero64(Value) THEN Wrote(pushBack(b, Ord("0")), TRUE, FALSE)
  ELSE IF Spec.Base \in 1..32
       THEN Wrote(IntFormatWrite(Spec.Base, b, Value,
                                 Spec.Extra \in {"Uppercase", "Ptr"}),
                  TRUE, FALSE)
  ELSE Wrote(b, FALSE, TRUE)

\* Formatter::write(long long)
writeLL(b, Value, Spec) ==
  writeULL(IF IsNeg64(Value) THEN pushBack(b, Ord("-")) ELSE b,
           llabs(Value), Spec)

\* Formatter::write(const void*)
writePtr(b, Ptr, Spec) ==
  writeULL(pushBack(pushBack(b, Ord("0")), Ord("z")), Ptr, Spec)

\* Formatter::write(char)
writeChar(b, C) == Wrote(pushBack(b, C), TRUE, FALSE)

\* Formatter::write(FmtValue::StrAndLen)
writeStr_nullok(b, FatStr) == Wrote(append(b, FatStr.Str), TRUE, FALSE)

writeStr(b, FatStr) ==
  IF FatStr.Null THEN Wrote(b, FALSE, FALSE)
  ELSE Wrote(append(b, FatStr.Str), TRUE, FALSE)

\* Formatter::write(const AnyFmt&): doFormat runs the driver's
\* format_custom(Fmt, CustomType), which calls Fmt.write({Str, Len}) and
\* drops its result.
writeGeneric(b, Value) ==
  Wrote(writeStr(b, [Null |-> Value.Null, Str |-> Value.Str]).Buf,
        TRUE, FALSE)

\* Formatter::write(FmtValue)
writeValue(b, Value, Spec) ==
  LET CharPerm == Spec.Extra = "Char"
      PtrPerm  == Spec.Extra = "Ptr"
  IN  IF isGenericType(Value) THEN writeGeneric(b, Value)
      ELSE IF isSIntType(Value, FALSE)
           THEN writeLL(b, getInt(Value, FALSE), Spec)
      ELSE IF isUIntType(Value, FALSE)
           THEN writeULL(b, getUInt(Value, FALSE), Spec)
      ELSE IF isPtrType(Value, PtrPerm)
           THEN writePtr(b, getPtr(Value, PtrPerm), Spec)
      ELSE IF isCharType(Value, CharPerm)
           THEN writeChar(b, getChar(Value, CharPerm))
      ELSE IF isStrType(Value, FALSE)
           THEN writeStr(b, getStr(Value, FALSE))
      ELSE [Buf |-> b, Ret |-> FALSE, Diag |-> TRUE, UB |-> TRUE]

\* The padding written after the value: Buf.fill once the writer returned.
FillAfter(r, Count, Pad) ==
  IF r.UB THEN r ELSE [r EXCEPT !.Buf = fill(@, Count, Pad)]

\* Whether counting the digits of V trips an assertion: baseDispatch's
\* "Invalid base!", or IntFormat<1>::Count's "Range Error!" (V < INT_MAX)
CountDiag(V, Base) ==
  \/ Base \notin 1..32
  \/ Base = 1 /\ ~Lt64(V, U64(2147483647))

\* Whether getValueSize trips one of them
SizeDiag(Value, Spec) ==
  IF isSIntType(Value, FALSE)
  THEN CountDiag(llabs(getInt(Value, FALSE)), Spec.Base)
  ELSE IF isUIntType(Value, FALSE)
  THEN CountDiag(getUInt(Value, FALSE), Spec.Base)
  ELSE IF isPtrType(Value, Spec.Extra = "Ptr")
  THEN CountDiag(getPtr(Value, TRUE), Spec.Base)
  ELSE FALSE

WithDiag(r, d) == [r EXCEPT !.Diag = @ \/ d]

\* Formatter::formatValue under the descriptor Spec; bld is how the build
\* resolves llabs(LLONG_MIN), which getValueSize evaluates first.
formatValue(b, Value, Spec, bld) ==
  IF isGenericType(Value) THEN writeGeneric(b, Value)
  ELSE IF bld = "trap" /\ isSIntType(Value, FALSE)
                       /\ LlabsOverflows(getInt(Value, FALSE))
       THEN [Buf |-> b, Ret |-> FALSE, Diag |-> FALSE, UB |-> TRUE]
  ELSE
    LET length == getValueSize(Value, Spec)
    IN  WithDiag(
        IF Spec.Base = InvalidBase
        THEN Wrote(fill(b, Max(length, Spec.Align), Spec.Pad), FALSE, TRUE)
        ELSE IF Spec.Align < length
        THEN writeValue(reserveBack(b, length), Value, Spec)
        ELSE
          LET b1         == reserveBack(b, Spec.Align)
              TotalAlign == Spec.Align - length
              HalfAlign  == TotalAlign \div 2
          IN  IF Spec.Side = "Left"
              THEN FillAfter(writeValue(b1, Value, Spec),
                             TotalAlign, Spec.Pad)
              ELSE IF Spec.Side = "Center"
              THEN FillAfter(writeValue(fill(b1, HalfAlign, Spec.Pad),
                                        Value, Spec),
                             TotalAlign - HalfAlign, Spec.Pad)
              ELSE writeValue(fill(b1, TotalAlign, Spec.Pad), Value, Spec),
        SizeDiag(Value, Spec))

-----------------------------------------------------------------------------
(* Spec parsing.  A string view is the sequence of its bytes; positions    *)
(* are 0-based as in std::string_view and npos is StrView::npos.           *)

npos == 2147483647

RECURSIVE findFirstOf(_, _, _)
findFirstOf(s, c, pos) ==
  IF pos >= Len(s) THEN npos
  ELSE IF s[pos + 1] = c THEN pos
  ELSE findFirstOf(s, c, pos + 1)

RECURSIVE findFirstNotOf(_, _, _)
findFirstNotOf(s, c, pos) ==
  IF pos >= Len(s) THEN npos
  ELSE IF s[pos + 1] # c THEN pos
  ELSE findFirstNotOf(s, c, pos + 1)

\* A substr that loses the last byte of the view it returns
substr_short(s, pos, n) == SubSeq(s, pos + 1, Min(pos + n, Len(s)) - 1)

substr(s, pos, n) == SubSeq(s, pos + 1, Min(pos + n, Len(s)))

removePrefix(s, n) == SubSeq(s, n + 1, Len(s))

removeSuffix(s, n) == SubSeq(s, 1, Len(s) - n)

\* std::from_chars into a size_t: the value of the leading decimal digits
RECURSIVE fromCharsFrom(_, _, _)
fromCharsFrom(s, i, acc) ==
  IF i > Len(s) \/ ~isDigit(s[i]) THEN acc
  ELSE fromCharsFrom(s, i + 1, (acc * 10) + (s[i] - Ord("0")))

\* doFromChars: [Val, Diag]; no leading digit is std::errc::invalid_argument
doFromChars(Data) ==
  IF Len(Data) = 0 \/ ~isDigit(Data[1])
  THEN [Val |-> 0, Diag |-> TRUE]
  ELSE [Val |-> fromCharsFrom(Data, 1, 0), Diag |-> FALSE]

\* Formatter::collectBraces
collectBraces(fs) ==
  LET BraceEnd == findFirstNotOf(fs, Ord("{"), 0)
  IN  IF BraceEnd = npos THEN <<>> ELSE substr(fs, 0, BraceEnd)

\* A side parser that reads '+' and '<' as Right
parseRSpecSide_right(Spec) ==
  IF Len(Spec) = 0 THEN [Side |-> "Left", Spec |-> Spec, Diag |-> FALSE]
  ELSE [Side |-> IF Spec[1] \in {Ord("="), Ord(" ")} THEN "Center"
                 ELSE "Right",
        Spec |-> removePrefix(Spec, 1),
        Diag |-> FALSE]

\* parseRSpecSide: [Side, Spec, Diag]
parseRSpecSide(Spec) ==
  IF Len(Spec) = 0 THEN [Side |-> "Left", Spec |-> Spec, Diag |-> FALSE]
  ELSE LET AlignChar == Spec[1]
           Rest      == removePrefix(Spec, 1)
       IN  IF AlignChar \in {Ord("+"), Ord("<")}
           THEN [Side |-> "Left", Spec |-> Rest, Diag |-> FALSE]
           ELSE IF AlignChar \in {Ord("="), Ord(" ")}
           THEN [Side |-> "Center", Spec |-> Rest, Diag |-> FALSE]
           ELSE IF AlignChar \in {Ord("-"), Ord(">")}
           THEN [Side |-> "Right", Spec |-> Rest, Diag |-> FALSE]
           ELSE [Side |-> "Left", Spec |-> Rest, Diag |-> TRUE]

\* A width parser that takes '*' for a width of 0
parseRSpecAlign_static(Spec) ==
  IF Len(Spec) = 0 THEN [Align |-> 0, Spec |-> Spec, Diag |-> FALSE]
  ELSE LET DigitCount == Min(findFirstOf(Spec, Ord("%"), 0), Len(Spec))
           r          == doFromChars(substr(Spec, 0, DigitCount))
       IN  [Align |-> r.Val, Spec |-> removePrefix(Spec, DigitCount),
            Diag |-> r.Diag]

\* parseRSpecAlign: [Align, Spec, Diag]
parseRSpecAlign(Spec) ==
  IF Len(Spec) = 0 THEN [Align |-> 0, Spec |-> Spec, Diag |-> FALSE]
  ELSE IF Spec[1] = Ord("*")
  THEN [Align |-> dynamicAlign, Spec |-> removePrefix(Spec, 1),
        Diag |-> FALSE]
  ELSE LET DigitCount == Min(findFirstOf(Spec, Ord("%"), 0), Len(Spec))
           r          == doFromChars(substr(Spec, 0, DigitCount))
       IN  [Align |-> r.Val, Spec |-> removePrefix(Spec, DigitCount),
            Diag |-> r.Diag]

\* The switch of parseRSpecOptions on S[0], entered with (Base, Extra)
optionSwitch(S, Base, Extra) ==
  LET c == S[1]
  IN  IF c \in {Ord("R"), Ord("r")}
      THEN LET r == doFromChars(removePrefix(S, 1))
           IN  [Base  |-> r.Val,
                Extra |-> IF c = Ord("R") THEN "Uppercase" ELSE Extra,
                Diag  |-> r.Diag \/ r.Val > 32]
      ELSE IF c \in {Ord("B"), Ord("b")}
      THEN [Base |-> 2, Extra |-> Extra, Diag |-> FALSE]
      ELSE IF c \in {Ord("O"), Ord("o")}
      THEN [Base |-> 8, Extra |-> Extra, Diag |-> FALSE]
      ELSE IF c \in {Ord("D"), Ord("d")}
      THEN [Base |-> 10, Extra |-> Extra, Diag |-> FALSE]
      ELSE IF c \in {Ord("H"), Ord("X")}
      THEN [Base |-> 16, Extra |-> "Uppercase", Diag |-> FALSE]
      ELSE IF c \in {Ord("x"), Ord("h")}
      THEN [Base |-> 16, Extra |-> Extra, Diag |-> FALSE]
      ELSE IF c \in {Ord("P"), Ord("p")}
      THEN [Base |-> 16, Extra |-> "Ptr", Diag |-> Extra # "None"]
      ELSE IF c \in {Ord("C"), Ord("c")}
      THEN [Base |-> Base, Extra |-> "Char", Diag |-> Extra # "None"]
      ELSE [Base |-> Base, Extra |-> Extra, Diag |-> TRUE]

\* parseRSpecOptions: [Base, Extra, Diag].  A trailing letter is parsed
\* first, by the call on the one-character view of S.back().
parseRSpecOptions(S) ==
  IF Len(S) = 0 THEN [Base |-> 10, Extra |-> "None", Diag |-> FALSE]
  ELSE IF Len(S) > 1 /\ isAlpha(S[Len(S)])
  THEN LET back == optionSwitch(<<S[Len(S)]>>, 10, "None")
           head == optionSwitch(removeSuffix(S, 1), back.Base, back.Extra)
       IN  [head EXCEPT !.Diag = @ \/ back.Diag]
  ELSE optionSwitch(S, 10, "None")

\* Formatter::parseReplacementSpec: [Ret, PR, Diag]
parseReplacementSpec(Spec) ==
  IF Len(Spec) = 0
  THEN [Ret |-> TRUE, Diag |-> FALSE,
        PR |-> FormatReplacement(Spec, 10, "None", "Left", 0, Ord(" "))]
  ELSE IF Spec[1] = Ord(":") /\ Len(Spec) <= 1
  THEN [Ret |-> FALSE, Diag |-> TRUE, PR |-> EmptyReplacement]
  ELSE
    LET HasAlign == Spec[1] = Ord(":")
        RawPad   == IF HasAlign THEN Spec[2] ELSE Ord(" ")
        \* a byte above 0x7F is negative, so below ' ', where char is
        \* signed, and above 0x7F where it is not
        BadPad   == RawPad < Ord(" ") \/ RawPad > 127
        Pad      == IF BadPad THEN Ord(" ") ELSE RawPad
        side     == IF HasAlign THEN parseRSpecSide(removePrefix(Spec, 2))
                    ELSE [Side |-> "Left", Spec |-> Spec, Diag |-> FALSE]
        align    == IF HasAlign THEN parseRSpecAlign(side.Spec)
                    ELSE [Align |-> 0, Spec |-> Spec, Diag |-> FALSE]
        Rest     == align.Spec
        d1       == BadPad \/ side.Diag \/ align.Diag
    IN  IF HasAlign /\ Len(Rest) = 0
        THEN [Ret |-> TRUE, Diag |-> d1,
              PR |-> FormatReplacement(Spec, 10, "None", side.Side,
                                       align.Align, Pad)]
        ELSE IF Rest[1] # Ord("%") \/ Len(Rest) <= 1
        THEN [Ret |-> FALSE, Diag |-> TRUE, PR |-> EmptyReplacement]
        ELSE LET opt == parseRSpecOptions(removePrefix(Rest, 1))
             IN  [Ret |-> TRUE, Diag |-> d1 \/ opt.Diag,
                  PR |-> FormatReplacement(Spec, opt.Base, opt.Extra,
                                           side.Side, align.Align, Pad)]

\* Formatter::parseNextReplacement: [Ret, FormatString, PR, Diag]
parseNextReplacement(fs, pr) ==
  IF Len(fs) = 0
  THEN [Ret |-> FALSE, FormatString |-> fs, PR |-> pr, Diag |-> FALSE]
  ELSE IF fs[1] # Ord("{")
  THEN LET BraceOpen == Min(findFirstOf(fs, Ord("{"), 0), Len(fs))
       IN  [Ret |-> TRUE, FormatString |-> removePrefix(fs, BraceOpen),
            PR |-> LiteralReplacement(substr(fs, 0, BraceOpen)),
            Diag |-> FALSE]
  ELSE
    LET Braces        == collectBraces(fs)
        NReplacements == Len(Braces) \div 2
        BraceClose    == findFirstOf(fs, Ord("}"), 0)
        NextBraceOpen == findFirstOf(fs, Ord("{"), 1)
    IN  IF Len(Braces) > 1
        THEN [Ret |-> TRUE,
              FormatString |-> removePrefix(fs, NReplacements * 2),
              PR |-> LiteralReplacement(substr(fs, 0, NReplacements)),
              Diag |-> FALSE]
        ELSE IF BraceClose = npos
        THEN [Ret |-> FALSE, FormatString |-> <<>>,
              PR |-> LiteralReplacement(fs), Diag |-> TRUE]
        ELSE IF NextBraceOpen < BraceClose
        THEN [Ret |-> TRUE, FormatString |-> removePrefix(fs, NextBraceOpen),
              PR |-> LiteralReplacement(substr(fs, 0, NextBraceOpen)),
              Diag |-> FALSE]
        ELSE LET r == parseReplacementSpec(substr(fs, 1, BraceClose - 1))
             IN  [Ret |-> r.Ret,
                  FormatString |-> removePrefix(fs, BraceClose + 1),
                  PR |-> r.PR, Diag |-> r.Diag]

-----------------------------------------------------------------------------
(* The calls the model runs: format literals, argument lists, RadixInts.   *)

MaxLitLen == 4
MaxRadix == 33

UINT_MAX   == <<0, 0, 0, 0, 255, 255, 255, 255>>
INT_MIN    == <<255, 255, 255, 255, 128, 0, 0, 0>>
UINT64_MAX == <<255, 255, 255, 255, 255, 255, 255, 255>>

RECURSIVE Cat(_)
Cat(parts) == IF Len(parts) = 0 THEN <<>> ELSE Head(parts) \o Cat(Tail(parts))

DecText(n) == DecDigits(U64(n))

\* Literals over plain text and braces
LitAlphabet == {Ord("a"), Ord("{"), Ord("}")}

LitTexts == UNION {[1..k -> LitAlphabet] : k \in 0..MaxLitLen}

LitArgs == {<<>>, <<UnsignedValue(U64(42))>>}

\* Alignment sections ":" pad [side] width
Pads == {Ord(" "), Ord("#")}

Sides == {<<>>, Str(<<"+">>), Str(<<"=">>), Str(<<"-">>)}

Widths == {<<>>, Str(<<"*">>)} \cup {DecText(w) : w \in {3, 9, 10}}

AlignTexts ==
  {<<>>} \cup {<<Ord(":"), p>> \o sd \o w :
                 p \in Pads, sd \in Sides, w \in Widths}

IsDynamic(a) == Len(a) > 0 /\ a[Len(a)] = Ord("*")

BasicValues ==
  { CStringValue(U64(4096), Str(<<"1", "2", "3">>)),
    UnsignedValue(U64(123)),
    SignedValue(Neg64(U64(123))),
    CharValue(Ord("A")),
    StringViewValue(<<>>),
    NullCString,
    GenericValue(Str(<<"o", "k">>), FALSE) }

WidthArgs == {SignedValue(U64(w)) : w \in {0, 6, 9}}

\* A width argument the buffer can honour: not a negative integer (as a
\* size_t it is above 2^63)
UsableWidth(v) == ~(isSIntType(v, FALSE) /\ IsNeg64(v.Int))

\* Argument lists for one field with the alignment section a
ArgsFor(a) ==
  IF IsDynamic(a)
  THEN {<<>>} \cup {<<v>> : v \in {x \in BasicValues : UsableWidth(x)}}
         \cup {<<w, v>> : w \in WidthArgs, v \in BasicValues}
  ELSE {<<>>} \cup {<<v>> : v \in BasicValues}

Suffixes == {<<>>, Str(<<"!">>), Str(<<"{", "}">>)}

Extras == {<<>>, <<UnsignedValue(U64(7))>>}

OneField(a) == <<Ord("{")>> \o a \o <<Ord("}")>>

AlignCalls ==
  UNION {{[lit |-> OneField(a) \o sfx, Values |-> vs \o ex] :
            sfx \in Suffixes, ex \in Extras, vs \in ArgsFor(a)} :
         a \in AlignTexts}

\* Option sections "%" letter..., and "%r<n>" / "%R<n>"
LetterOptions ==
  { Str(<<"b">>), Str(<<"o">>), Str(<<"d">>), Str(<<"x">>), Str(<<"X">>),
    Str(<<"h">>), Str(<<"H">>), Str(<<"B">>), Str(<<"O">>), Str(<<"D">>),
    Str(<<"c">>), Str(<<"C">>), Str(<<"p">>), Str(<<"P">>),
    Str(<<"X", "c">>), Str(<<"o", "p">>), Str(<<"c", "X">>),
    Str(<<"r">>), Str(<<"q">>) }

RadixOptions ==
  {<<Ord("r")>> \o DecText(n) : n \in 1..MaxRadix}
    \cup {<<Ord("R")>> \o DecText(n) : n \in 1..MaxRadix}
    \cup {Str(<<"r", "3", "2", "p">>)}

OptionTexts ==
  {<<Ord("%")>> \o o : o \in LetterOptions \cup RadixOptions}

OptionAligns ==
  { Str(<<":", " ", "-", "1", "0">>),
    Str(<<":", "#", "+", "3">>),
    Str(<<":", "0", "=", "7">>) }

OptionValues ==
  { UnsignedValue(U64(0)), UnsignedValue(U64(1)), UnsignedValue(U64(2)),
    UnsignedValue(U64(42)), UnsignedValue(U64(64)), UnsignedValue(U64(65)),
    UnsignedValue(U64(123)), UnsignedValue(U64(789942)),
    UnsignedValue(UINT_MAX), UnsignedLLValue(UINT64_MAX),
    SignedValue(Neg64(U64(123))), SignedValue(INT_MIN), SignedValue(U64(5)),
    SignedLLValue(Neg64(U64(1))), SignedLLValue(LLONG_MIN),
    CharValue(Ord("A")),
    CStringValue(U64(4096), Str(<<"A", "B", "C">>)),
    PtrValue(U64(57005)) }

\* Every option unaligned, and the letters and a few radices aligned
AlignedOptions ==
  {<<Ord("%")>> \o o :
     o \in LetterOptions
             \cup {<<Ord("r")>> \o DecText(n) : n \in {1, 5, 32, MaxRadix}}}

OptionCalls ==
  {[lit |-> OneField(o), Values |-> <<v>>] :
     o \in OptionTexts, v \in OptionValues}
  \cup
  {[lit |-> OneField(a \o o), Values |-> <<v>>] :
     a \in OptionAligns, o \in AlignedOptions, v \in OptionValues}

\* The calls of the drivers and of the README
ExampleCalls ==
  { [lit |-> Str(<<"T", "e", "s", "t", "i", "n", "g", ",", " ",
                   "{", "}", "!">>),
     Values |-> <<CStringValue(U64(4096), Str(<<"1", "2", "3">>))>>],
    [lit |-> Str(<<"T", "e", "s", "t", "i", "n", "g", ",", " ",
                   "{", ":", " ", "+", "9", "}", "!">>),
     Values |-> <<SignedValue(U64(123))>>],
    [lit |-> Str(<<"{", ":", " ", "=", "*", "%", "D", "}">>),
     Values |-> <<SignedValue(U64(9)),
                  CStringValue(U64(4096), Str(<<"1", "2", "3">>))>>],
    [lit |-> Str(<<"{", "%", "c", "}">>),
     Values |-> <<CStringValue(U64(4096), Str(<<"A", "B", "C">>))>>] }

LitCalls == {[lit |-> t, Values |-> vs] : t \in LitTexts, vs \in LitArgs}

\* format() is run on the literals, the alignment fields and the examples;
\* the engine on every call
FormatCalls == LitCalls \cup AlignCalls \cup ExampleCalls

\* Strings of each category: C strings, std::string, string views; some
\* of them empty, one a null pointer
StringValues ==
  { CStringValue(U64(4096), Str(<<"A", "B", "C">>)),
    CStringValue(U64(4096), <<>>),
    NullCString,
    StdStringValue(Str(<<"x", "y">>)),
    StdStringValue(<<>>),
    StringViewValue(Str(<<"A", "B", "C">>)),
    StringViewValue(<<>>) }

\* The strings under the character option, aligned or not
CharCalls ==
  {[lit |-> OneField(a \o <<Ord("%"), c>>), Values |-> <<v>>] :
     a \in OptionAligns \cup {<<>>}, c \in {Ord("c"), Ord("C")},
     v \in StringValues}

\* Fields with a width that is no decimal number, and with bytes after
\* the base
MalformedTexts ==
  { Str(<<":", "#", "3", "x">>), Str(<<":", " ", "+", "3", "x">>),
    Str(<<"%", "x", "y", "z">>), Str(<<"%", "d", "d">>) }

MalformedCalls ==
  {[lit |-> OneField(t), Values |-> <<UnsignedValue(U64(42))>>] :
     t \in MalformedTexts}

\* Every base followed by each extra letter, and the pointer letter alone
ExtraBases ==
  { Str(<<"b">>), Str(<<"o">>), Str(<<"d">>), Str(<<"x">>), Str(<<"h">>),
    Str(<<"B">>), Str(<<"O">>), Str(<<"D">>), Str(<<"X">>), Str(<<"H">>),
    Str(<<"r", "5">>), Str(<<"R", "5">>), Str(<<"r", "3", "2">>) }

ExtraLetters == {Ord("p"), Ord("P"), Ord("c"), Ord("C")}

ExtraValues ==
  { UnsignedValue(U64(42)),
    CStringValue(U64(4096), Str(<<"A", "B", "C">>)) }

ExtraCalls ==
  {[lit |-> OneField(<<Ord("%")>> \o b \o <<e>>), Values |-> <<v>>] :
     b \in ExtraBases \cup {<<>>}, e \in ExtraLetters, v \in ExtraValues}

\* Pointers, one of them null, under every base and the pointer letter
PtrOptions ==
  { <<>>, Str(<<"%", "b">>), Str(<<"%", "o">>), Str(<<"%", "d">>),
    Str(<<"%", "x">>), Str(<<"%", "p">>), Str(<<"%", "P">>),
    Str(<<"%", "b", "p">>), Str(<<"%", "o", "p">>), Str(<<"%", "d", "p">>),
    Str(<<"%", "x", "p">>), Str(<<"%", "r", "5">>),
    Str(<<"%", "r", "5", "p">>), Str(<<"%", "r", "3", "2", "p">>) }

PtrValues ==
  { PtrValue(Zero64), PtrValue(U64(57005)),
    CStringValue(U64(4096), Str(<<"A", "B", "C">>)) }

PtrCalls ==
  {[lit |-> OneField(o), Values |-> <<v>>] : o \in PtrOptions, v \in PtrValues}

\* "{:p<3}" for every byte p, over the unsigned 42
PadField(p) == OneField(<<Ord(":"), p, Ord("<"), Ord("3")>>)

PadCalls ==
  {[lit |-> PadField(p), Values |-> <<UnsignedValue(U64(42))>>] :
     p \in 0..255}

\* Several fields with literals, an escape or a '*' width among them, over
\* too few, as many and too many arguments
SeveralTexts ==
  { Str(<<"{", "}", "-", "{", "%", "x", "}">>),
    Str(<<"a", "{", "}", "{", "{", "{", "}">>),
    Str(<<"{", "}", "{", ":", " ", ">", "*", "}", "{", "}">>),
    Str(<<"{", "}", "+", "{", "}", "+", "{", "}">>) }

SeveralArgs ==
  <<UnsignedValue(U64(1)), UnsignedValue(U64(2)), SignedValue(U64(3)),
    UnsignedValue(U64(42))>>

SeveralCalls ==
  {[lit |-> t, Values |-> SubSeq(SeveralArgs, 1, n)] :
     t \in SeveralTexts, n \in 0..Len(SeveralArgs)}

Calls ==
  FormatCalls \cup OptionCalls \cup CharCalls \cup MalformedCalls
    \cup ExtraCalls \cup PtrCalls \cup PadCalls \cup SeveralCalls

RadixVals ==
  { U64(0), U64(1), U64(2), U64(3), U64(7), U64(8), U64(9), U64(10),
    U64(31), U64(32), U64(42), U64(63), U64(64), U64(65), U64(99),
    U64(100), U64(255), U64(256), U64(789942), UINT_MAX,
    <<0, 0, 0, 1, 0, 0, 0, 0>>, LLONG_MIN, UINT64_MAX }

RadixInts == {[Val |-> v, Radix |-> r] : v \in RadixVals, r \in 1..32}

-----------------------------------------------------------------------------
(* The state machine.                                                      *)

NoValue == FmtValue("None", Zero64, 0, <<>>, FALSE)

\* SmallBufEstimateType<N>
SmallBufEstimate(N) == NewSmallBuf(IF N > 64 THEN 256 ELSE 128)

\* The format entry points declare no SmallBuf<N> of testBuf
NoCall == [Op |-> "none"]

NoBuffers ==
  /\ Bufs = <<>>
  /\ Heap = <<>>
  /\ Fault = FALSE
  /\ Last = NoCall
  /\ Pushed = <<>>
  /\ Ops = 0

Init ==
  /\ entry \in {"parseWith", "format", "format_custom"}
  /\ IF entry = "format_custom"
     THEN /\ IRad \in RadixInts
          /\ lit = <<>>
          /\ Values = <<>>
          /\ pc = "write"
     ELSE /\ IRad = [Val |-> Zero64, Radix |-> 10]
          /\ \E c \in IF entry = "format" THEN FormatCalls ELSE Calls :
               lit = c.lit /\ Values = c.Values
          /\ pc = "parse"
  /\ FormatString = IF entry = "format" THEN Append(lit, 0) ELSE lit
  /\ ParsedReplacement = EmptyReplacement
  /\ Buf = IF entry = "format" THEN SmallBufEstimate(Len(lit) + 1)
           ELSE NewSmallBuf(4)
  /\ Vs = 0
  /\ diag = FALSE
  /\ segs = <<>>
  /\ result = <<>>
  /\ BridgeBuf = NewSmallBuf(128)
  /\ BridgeCount = 0
  /\ NoBuffers

\* FmtValueSpan: Begin is the number of arguments taken; take() that keeps
\* Begin, then take() (the span after the call), canTake, canTakePair
take_stay(vs) == vs

take(vs) == IF vs >= Len(Values) THEN vs ELSE vs + 1

canTake == Vs < Len(Values)

canTakePair == Len(Values) - Vs > 1

\* What the builds make of std::llabs(LLONG_MIN): the two's complement
\* pattern comes back, or the overflow traps.
Builds == {"wrap", "trap"}

\* One record of the history variable segs
Segment(Kind, Spec, Value, Taken, Before, After, Ret) ==
  [Kind |-> Kind, Spec |-> Spec, Value |-> Value, First |-> Vs,
   Taken |-> Taken, Before |-> Before, After |-> After, Ret |-> Ret]

\* while (this->parseNextReplacement()): the loop condition, and after the
\* loop the check that every argument was consumed
ParseNext ==
  /\ pc = "parse"
  /\ LET r == parseNextReplacement(FormatString, ParsedReplacement)
     IN  /\ FormatString' = r.FormatString
         /\ ParsedReplacement' = r.PR
         /\ pc' = IF r.Ret THEN "body" ELSE "done"
         /\ diag' = (diag \/ r.Diag \/ (~r.Ret /\ canTake))
  /\ UNCHANGED <<inputVars, bufVars, Buf, Vs, segs, result, BridgeBuf, BridgeCount>>

\* The loop body of parseWith for a literal segment (and the Empty one)
BodyLiteral ==
  /\ pc = "body"
  /\ ~(ParsedReplacement.Type = "Format")
  /\ IF ParsedReplacement.Type = "Empty"
     THEN /\ diag' = TRUE
          /\ pc' = "done"
          /\ UNCHANGED <<Buf, segs>>
     ELSE /\ Buf' = append(Buf, ParsedReplacement.Data)
          /\ segs' = Append(segs, Segment("Literal", ParsedReplacement,
                                          NoValue, 0, size(Buf), size(Buf'),
                                          TRUE))
          /\ pc' = "parse"
          /\ UNCHANGED diag
  /\ UNCHANGED <<inputVars, bufVars, FormatString, ParsedReplacement, Vs, result,
                 BridgeBuf, BridgeCount>>

\* The loop body of parseWith for a field: the dynamic width, the value,
\* formatValue
BodyFormat ==
  /\ pc = "body"
  /\ ParsedReplacement.Type = "Format"
  /\ LET Dyn == ParsedReplacement.Align = dynamicAlign
     IN
     IF Dyn /\ ~canTake
     THEN \* Vs.take() is nullptr and Align->isIntType reads through it
          /\ pc' = "ub"
          /\ diag' = TRUE
          /\ UNCHANGED <<ParsedReplacement, Buf, Vs, segs>>
     ELSE
       LET Align == Values[Vs + 1]
           Repl  == IF Dyn
                    THEN [ParsedReplacement EXCEPT
                            !.Align = Small(getInt(Align, TRUE))]
                    ELSE ParsedReplacement
           d1    == Dyn /\ (~canTakePair \/ ~isIntType(Align, TRUE))
           v1    == IF Dyn THEN take(Vs) ELSE Vs
       IN
       /\ ParsedReplacement' = Repl
       /\ IF v1 >= Len(Values)
          THEN /\ Vs' = v1
               /\ diag' = TRUE
               /\ pc' = "done"
               /\ UNCHANGED <<Buf, segs>>
          ELSE \E bld \in Builds :
                 LET Value == Values[v1 + 1]
                     r     == formatValue(Buf, Value, Repl, bld)
                 IN  /\ Vs' = take(v1)
                     /\ Buf' = r.Buf
                     /\ diag' = (diag \/ d1 \/ r.Diag)
                     /\ segs' = Append(segs, Segment("Format", Repl, Value,
                                                     take(v1) - Vs,
                                                     size(Buf),
                                                     size(r.Buf), r.Ret))
                     /\ pc' = IF r.UB THEN "ub"
                              ELSE IF r.Ret THEN "parse" ELSE "done"
  /\ UNCHANGED <<inputVars, bufVars, FormatString, result, BridgeBuf, BridgeCount>>

\* format(): return std::string(Buf.begin(), Buf.end())
Return ==
  /\ entry = "format"
  /\ pc = "done"
  /\ result' = Buf.Bytes
  /\ pc' = "returned"
  /\ UNCHANGED <<inputVars, bufVars, FormatString, ParsedReplacement, Buf, Vs, diag,
                 segs, BridgeBuf, BridgeCount>>

\* format_custom(Fmt, IRad) up to IntFormat<Base>::Write in the bridge
BridgeWrite ==
  /\ entry = "format_custom"
  /\ pc = "write"
  /\ BridgeBuf' = IntFormatWrite(IRad.Radix, pushBack(BridgeBuf, Ord("{")),
                                 IRad.Val, FALSE)
  /\ pc' = "count"
  /\ UNCHANGED <<inputVars, bufVars, fmtVars, Buf, diag, BridgeCount>>

\* IntFormat<Base>::Count, the ", " and the count in decimal, the brace
BridgeCountStep ==
  /\ entry = "format_custom"
  /\ pc = "count"
  /\ BridgeCount' = IntFormatCount(IRad.Radix, IRad.Val)
  /\ BridgeBuf' =
       pushBack(IntFormatWrite(10, append(BridgeBuf, Str(<<",", " ">>)),
                               U64(BridgeCount'), FALSE),
                Ord("}"))
  /\ diag' = (diag \/ CountDiag(IRad.Val, IRad.Radix))
  /\ pc' = "flush"
  /\ UNCHANGED <<inputVars, bufVars, fmtVars, Buf>>

\* Fmt.write(Buf): the bridge's bytes reach the formatter's buffer
BridgeFlush ==
  /\ entry = "format_custom"
  /\ pc = "flush"
  /\ Buf' = append(Buf, BridgeBuf.Bytes)
  /\ pc' = "done"
  /\ UNCHANGED <<inputVars, bufVars, fmtVars, diag, BridgeBuf, BridgeCount>>

Next ==
  \/ ParseNext
  \/ BodyLiteral
  \/ BodyFormat
  \/ Return
  \/ BridgeWrite
  \/ BridgeCountStep
  \/ BridgeFlush

Spec == Init /\ [][Next]_vars

\* The format calls whose termination is checked, through both entry
\* points
LiveTexts ==
  { Str(<<"{", "}", "!">>), Str(<<"{", "%", "c", "}">>),
    Str(<<"{", ":", " ", ">", "*", "}">>), Str(<<"{", "}", "{", "}">>),
    Str(<<"a", "{", "{">>), Str(<<"{", ":", "#", "+", "3", "}", "!">>),
    Str(<<"{", "x">>) }

LiveArgs ==
  { <<>>, <<CharValue(Ord("A"))>>, <<NullCString>>,
    <<UnsignedValue(U64(1)), UnsignedValue(U64(2))>> }

LiveCalls == {[lit |-> t, Values |-> vs] : t \in LiveTexts, vs \in LiveArgs}

LiveInit ==
  /\ entry \in {"parseWith", "format"}
  /\ IRad = [Val |-> Zero64, Radix |-> 10]
  /\ \E c \in LiveCalls : lit = c.lit /\ Values = c.Values
  /\ pc = "parse"
  /\ FormatString = IF entry = "format" THEN Append(lit, 0) ELSE lit
  /\ ParsedReplacement = EmptyReplacement
  /\ Buf = IF entry = "format" THEN SmallBufEstimate(Len(lit) + 1)
           ELSE NewSmallBuf(4)
  /\ Vs = 0
  /\ diag = FALSE
  /\ segs = <<>>
  /\ result = <<>>
  /\ BridgeBuf = NewSmallBuf(128)
  /\ BridgeCount = 0
  /\ NoBuffers

LiveNext ==
  \/ ParseNext
  \/ BodyLiteral
  \/ BodyFormat
  \/ Return

\* A call runs on its caller's thread with no suspension point: a step
\* that can be taken is taken
LiveSpec == LiveInit /\ [][LiveNext]_vars /\ WF_vars(LiveNext)

-----------------------------------------------------------------------------
(* The buffers at the level of their pointers (DynBuf, SmallBufImpl,       *)
(* SmallBuf<N>), as testBuf of the driver uses them.  A memory M is the    *)
(* record [B, H, F]: the buffer objects, the heap and the fault flag.  A   *)
(* pointer is nullptr, the inline Storage of a buffer, a heap block, or a  *)
(* string of the caller.  A char nobody has written yet is Indeterminate.  *)

Indeterminate == 0 - 1

nullptr == [Kind |-> "null", At |-> 0]

StoragePtr(id) == [Kind |-> "inline", At |-> id]

HeapPtr(k) == [Kind |-> "heap", At |-> k]

LiteralPtr(s) == [Kind |-> "literal", At |-> s]

Memory(B, H, F) == [B |-> B, H |-> H, F |-> F]

\* The chars a pointer leads to (none for nullptr and for a freed block)
Pointee(M, p) ==
  CASE p.Kind = "inline"  -> M.B[p.At].Storage
    [] p.Kind = "heap"    -> IF M.H[p.At].Live THEN M.H[p.At].Bytes ELSE <<>>
    [] p.Kind = "literal" -> p.At
    [] OTHER              -> <<>>

\* Reading n chars through p
Load(M, p, n) ==
  LET mem == Pointee(M, p)
  IN  [i \in 1..n |-> IF i <= Len(mem) THEN mem[i] ELSE Indeterminate]

\* Writing the chars s through p + Off; a write that leaves the storage p
\* leads to is a fault and stores nothing
Store(M, p, Off, s) ==
  LET mem == Pointee(M, p)
      new == [i \in 1..Len(mem) |->
                IF i > Off /\ i <= Off + Len(s) THEN s[i - Off] ELSE mem[i]]
  IN  IF s = <<>> THEN M
      ELSE IF Off + Len(s) > Len(mem) THEN [M EXCEPT !.F = TRUE]
      ELSE IF p.Kind = "inline" THEN [M EXCEPT !.B[p.At].Storage = new]
      ELSE IF p.Kind = "heap" THEN [M EXCEPT !.H[p.At].Bytes = new]
      ELSE [M EXCEPT !.F = TRUE]

\* std::memcpy(Dst + Off, Src, n)
memcpy(M, Dst, Off, Src, n) ==
  LET M1 == IF n > Len(Pointee(M, Src)) THEN [M EXCEPT !.F = TRUE] ELSE M
  IN  Store(M1, Dst, Off, Load(M, Src, n))

\* std::memset(Dst + Off, Fill, n)
memset(M, Dst, Off, Fill, n) == Store(M, Dst, Off, [i \in 1..n |-> Fill])

\* new char[Cap]: the block NextBlock(M) is what the call returns
NextBlock(M) == HeapPtr(Len(M.H) + 1)

AllocateBuffer(M, Cap) ==
  [M EXCEPT !.H = Append(@, [Bytes |-> [i \in 1..Cap |-> Indeterminate],
                             Live |-> TRUE, Frees |-> 0])]

\* delete[] p: nothing for nullptr; a block is freed once, and freeing
\* anything else is a fault
DeleteArray(M, p) ==
  CASE p = nullptr     -> M
    [] p.Kind = "heap" ->
         [M EXCEPT !.H[p.At].Live = FALSE,
                   !.H[p.At].Frees = @ + 1,
                   !.F = (@ \/ ~M.H[p.At].Live)]
    [] OTHER           -> [M EXCEPT !.F = TRUE]

\* DynBuf
DynBuf_tweakCapacity(M, id) ==
  IF M.B[id].Data # nullptr THEN M
  ELSE IF M.B[id].Capacity = 0 THEN [M EXCEPT !.B[id].Capacity = 1]
  ELSE M

DynBuf_tweakBuffer(M, id) ==
  LET T == DynBuf_tweakCapacity(M, id)
  IN  IF T.B[id].Data = nullptr
      THEN [AllocateBuffer(T, T.B[id].Capacity) EXCEPT
              !.B[id].Data = NextBlock(T)]
      ELSE T

DynBuf_setBufferAndCapacity(M, id, Ptr, Cap) ==
  DynBuf_tweakBuffer([M EXCEPT !.B[id].Data = Ptr, !.B[id].Capacity = Cap],
                     id)

DynBuf_deallocate(M, id) == DeleteArray(M, M.B[id].Data)

DynBuf_resetSize(M, id) == [M EXCEPT !.B[id].Size = 0]

\* clear that goes back to the inline array
DynBuf_clear_inline(M, id) ==
  [M EXCEPT !.B[id].Size = 0, !.B[id].Data = StoragePtr(id),
            !.B[id].Capacity = M.B[id].InlinedSize]

DynBuf_clear(M, id) ==
  [M EXCEPT !.B[id].Size = 0, !.B[id].Data = nullptr, !.B[id].Capacity = 0]

\* SmallBufImpl
getFirstElem(id) == StoragePtr(id)

isInlinedBuffer(id, Ptr) == Ptr = getFirstElem(id)

isSelfUsingInlinedBuffer(M, id) == isInlinedBuffer(id, M.B[id].Data)

\* SmallBufStorage<Size>::getBufPtr, and its specialization for Size 0
getBufPtr(M, id) ==
  IF M.B[id].InlinedSize = 0 THEN nullptr ELSE StoragePtr(id)

\* tryReserve without the memcpy of the old bytes
SmallBufImpl_tryReserve_nocopy(M, id, Cap) ==
  LET OldCapacity == M.B[id].Capacity
      NewCapacity == Max(OldCapacity * 2, Cap)
      OldPtr == M.B[id].Data
      NewPtr == NextBlock(M)
      M1 == DynBuf_setBufferAndCapacity(AllocateBuffer(M, NewCapacity), id,
                                        NewPtr, NewCapacity)
  IN  IF Cap <= OldCapacity THEN M
      ELSE IF OldPtr = nullptr \/ isInlinedBuffer(id, OldPtr) THEN M1
      ELSE DeleteArray(M1, OldPtr)

SmallBufImpl_tryReserve(M, id, Cap) ==
  LET OldCapacity == M.B[id].Capacity
      NewCapacity == Max(OldCapacity * 2, Cap)
      OldPtr == M.B[id].Data
      NewPtr == NextBlock(M)
      M1 == DynBuf_setBufferAndCapacity(AllocateBuffer(M, NewCapacity), id,
                                        NewPtr, NewCapacity)
      M2 == memcpy(M1, NewPtr, 0, OldPtr, M1.B[id].Size)
  IN  IF Cap <= OldCapacity THEN M
      ELSE IF OldPtr = nullptr THEN M1
      ELSE IF isInlinedBuffer(id, OldPtr) THEN M2
      ELSE DeleteArray(M2, OldPtr)

SmallBufImpl_pushBack(M, id, Val) ==
  LET M1 == SmallBufImpl_tryReserve(M, id, M.B[id].Size + 1)
      M2 == Store(M1, M1.B[id].Data, M1.B[id].Size, <<Val>>)
  IN  [M2 EXCEPT !.B[id].Size = @ + 1]

\* append(Begin, End) with Total = End - Begin
SmallBufImpl_append(M, id, Begin, Total) ==
  LET M1 == SmallBufImpl_tryReserve(M, id, M.B[id].Size + Total)
      M2 == memcpy(M1, M1.B[id].Data, M1.B[id].Size, Begin, Total)
  IN  IF Total = 0 THEN M ELSE [M2 EXCEPT !.B[id].Size = @ + Total]

SmallBufImpl_appendStr(M, id, s) ==
  SmallBufImpl_append(M, id, LiteralPtr(s), Len(s))

\* tryResize(Count) that sets the size without reserving
SmallBufImpl_tryResize_noreserve(M, id, Count) ==
  [M EXCEPT !.B[id].Size = Count]

\* tryResize(Count)
SmallBufImpl_tryResize(M, id, Count) ==
  LET M1 == SmallBufImpl_tryReserve(M, id, Count)
  IN  [M1 EXCEPT !.B[id].Size = Min(Count, M1.B[id].Capacity)]

\* tryResizeForFill(Count): the memory, and the value returned
SmallBufImpl_tryResizeForFill(M, id, Count) ==
  [M |-> SmallBufImpl_tryResize(M, id, Count),
   DoFill |-> Count > M.B[id].Size]

\* tryResize(Count, Fill) with the memset at the start of the buffer
SmallBufImpl_tryResizeFill_front(M, id, Count, Fill) ==
  LET OldSize == M.B[id].Size
      r == SmallBufImpl_tryResizeForFill(M, id, Count)
      Length == r.M.B[id].Size - OldSize
  IN  IF ~r.DoFill THEN r.M
      ELSE memset(r.M, r.M.B[id].Data, 0, Fill, Length)

\* tryResize(Count, Fill); getNthElem(OldSize) asserts OldSize < size()
SmallBufImpl_tryResizeFill(M, id, Count, Fill) ==
  LET OldSize == M.B[id].Size
      r == SmallBufImpl_tryResizeForFill(M, id, Count)
      Length == r.M.B[id].Size - OldSize
  IN  IF ~r.DoFill THEN r.M
      ELSE IF Length <= 0 THEN [r.M EXCEPT !.F = TRUE]
      ELSE memset(r.M, r.M.B[id].Data, OldSize, Fill, Length)

SmallBufImpl_fill(M, id, Count, Fill) ==
  SmallBufImpl_tryResizeFill(M, id, M.B[id].Size + Count, Fill)

SmallBufImpl_deallocateIfDynamicFast(M, id) ==
  IF ~isSelfUsingInlinedBuffer(M, id) THEN DynBuf_deallocate(M, id) ELSE M

\* clearOrReset that never forgets the pointer
SmallBufImpl_clearOrReset_keep(M, id) == DynBuf_resetSize(M, id)

SmallBufImpl_clearOrReset(M, id) ==
  IF ~isSelfUsingInlinedBuffer(M, id) THEN DynBuf_clear(M, id)
  ELSE DynBuf_resetSize(M, id)

SmallBufImpl_deallocateIfDynamic(M, id) ==
  SmallBufImpl_clearOrReset(SmallBufImpl_deallocateIfDynamicFast(M, id), id)

\* clearUnsafe asserts that the buffer is not the inlined one
SmallBufImpl_clearUnsafe(M, id) ==
  DynBuf_clear([M EXCEPT !.F = (@ \/ isSelfUsingInlinedBuffer(M, id))], id)

SmallBufImpl_cloneOrTakeBuffer(M, id, Other) ==
  LET M1 == SmallBufImpl_deallocateIfDynamic(M, id)
      M2 == SmallBufImpl_tryReserve(M1, id, M1.B[Other].Capacity)
      M3 == SmallBufImpl_append(M2, id, M2.B[Other].Data, M2.B[Other].Size)
      M4 == DynBuf_setBufferAndCapacity(M1, id, M1.B[Other].Data,
                                        M1.B[Other].Capacity)
  IN  IF isSelfUsingInlinedBuffer(M1, Other)
      THEN DynBuf_resetSize(M3, Other)
      ELSE SmallBufImpl_clearUnsafe(M4, Other)

SmallBufImpl_move(M, id, Other) ==
  LET M1 == DynBuf_resetSize(M, id)
      M2 == SmallBufImpl_append(M1, id, M1.B[Other].Data, M1.B[Other].Size)
  IN  IF Other = id THEN M
      ELSE IF M.B[Other].Size = 0
      THEN DynBuf_resetSize(DynBuf_resetSize(M, Other), id)
      ELSE IF M.B[id].Capacity < M.B[Other].Capacity
      THEN SmallBufImpl_cloneOrTakeBuffer(M, id, Other)
      ELSE SmallBufImpl_deallocateIfDynamic(M2, Other)

\* SmallBuf<InlinedSize>: the object before its constructor body, the
\* constructor, operator=(BaseType&&), the destructor, resize, reserve, wipe
RawBuf(N) ==
  [Data |-> nullptr, Size |-> 0, Capacity |-> N, InlinedSize |-> N,
   Storage |-> [i \in 1..N |-> Indeterminate], Alive |-> TRUE]

SmallBuf_ctor(M, N) ==
  LET id == Len(M.B) + 1
      M1 == [M EXCEPT !.B = Append(@, RawBuf(N))]
  IN  DynBuf_tweakBuffer([M1 EXCEPT !.B[id].Data =
                            IF N # 0 THEN getFirstElem(id) ELSE nullptr],
                         id)

SmallBuf_assign(M, id, Other) == SmallBufImpl_move(M, id, Other)

SmallBuf_dtor(M, id) ==
  [SmallBufImpl_deallocateIfDynamicFast(M, id) EXCEPT !.B[id].Alive = FALSE]

SmallBuf_resize(M, id, Count) == SmallBufImpl_tryResize(M, id, Count)

SmallBuf_resizeFill(M, id, Count, Fill) ==
  SmallBufImpl_tryResizeFill(M, id, Count, Fill)

SmallBuf_reserve(M, id, Cap) == SmallBufImpl_tryReserve(M, id, Cap)

SmallBuf_deallocateAndSetInlineBuf(M, id) ==
  LET M1 == SmallBufImpl_deallocateIfDynamic(M, id)
  IN  DynBuf_setBufferAndCapacity(M1, id, getBufPtr(M1, id),
                                  M1.B[id].InlinedSize)

SmallBuf_wipe(M, id) == SmallBuf_deallocateAndSetInlineBuf(M, id)

\* The chars [begin(), end()) of a buffer
Contents(M, id) == Load(M, M.B[id].Data, M.B[id].Size)

-----------------------------------------------------------------------------
(* testBuf: two SmallBuf objects and the calls the driver makes on them,   *)
(* in any order and on either buffer.                                      *)

MaxOps == 4

\* The InlinedSize of Buf and of OtherBuf
InlineSizes == {0, 2, 4}

OtherInlineSizes == {4}

PushChars == {Ord("H")}

AppendStrs == {<<>>, Str(<<"o", "k">>), Str(<<"R", "a", "h", "h", "h", "!">>)}

ReserveCaps == {6}

ResizeCounts == {0, 3}

ShrinkCounts == {0}

FillCounts == {2}

FillChar == Ord(".")

Mem == Memory(Bufs, Heap, Fault)

Commit(M) ==
  /\ Bufs' = M.B
  /\ Heap' = M.H
  /\ Fault' = M.F

BufIds == DOMAIN Bufs

Callable(id) == entry = "testBuf" /\ Ops < MaxOps /\ Bufs[id].Alive

\* One record of the history variable Last
Call(Op, id, Other, Count, Fill) ==
  [Op |-> Op, Id |-> id, Other |-> Other, Count |-> Count, Fill |-> Fill,
   Before |-> Contents(Mem, id),
   OtherBefore |-> IF Other = 0 THEN <<>> ELSE Contents(Mem, Other),
   Taken |-> Other # 0 /\ Bufs[Other].Size # 0
             /\ Bufs[id].Capacity < Bufs[Other].Capacity
             /\ ~isSelfUsingInlinedBuffer(Mem, Other)]

\* The history variable Pushed: what was pushed and appended to a buffer on
\* which nothing else was called since its construction
NothingPushed == [Only |-> TRUE, Bytes |-> <<>>]

OtherCall == [Only |-> FALSE, Bytes |-> <<>>]

PushedMore(id, s) ==
  [Pushed EXCEPT ![id] = IF @.Only THEN [@ EXCEPT !.Bytes = @ \o s] ELSE @]

BufInit ==
  /\ entry = "testBuf"
  /\ lit = <<>>
  /\ Values = <<>>
  /\ IRad = [Val |-> Zero64, Radix |-> 10]
  /\ pc = "testBuf"
  /\ FormatString = <<>>
  /\ ParsedReplacement = EmptyReplacement
  /\ Buf = NewSmallBuf(4)
  /\ Vs = 0
  /\ diag = FALSE
  /\ segs = <<>>
  /\ result = <<>>
  /\ BridgeBuf = NewSmallBuf(128)
  /\ BridgeCount = 0
  /\ \E N \in InlineSizes, O \in OtherInlineSizes :
       LET M == SmallBuf_ctor(SmallBuf_ctor(Memory(<<>>, <<>>, FALSE), N), O)
       IN  /\ Bufs = M.B
           /\ Heap = M.H
           /\ Fault = M.F
  /\ Last = NoCall
  /\ Pushed = <<NothingPushed, NothingPushed>>
  /\ Ops = 0

formatVars == <<entry, lit, Values, FormatString, ParsedReplacement, Buf, Vs,
                pc, diag, segs, result, IRad, BridgeBuf, BridgeCount>>

\* Buf.pushBack(Val)
PushBack ==
  \E id \in BufIds, Val \in PushChars :
    /\ Callable(id)
    /\ Commit(SmallBufImpl_pushBack(Mem, id, Val))
    /\ Last' = Call("pushBack", id, 0, 1, Val)
    /\ Pushed' = PushedMore(id, <<Val>>)
    /\ Ops' = Ops + 1
    /\ UNCHANGED formatVars

\* Buf.appendStr(Str)
AppendStr ==
  \E id \in BufIds, s \in AppendStrs :
    /\ Callable(id)
    /\ Commit(SmallBufImpl_appendStr(Mem, id, s))
    /\ Last' = Call("appendStr", id, 0, Len(s), 0)
    /\ Pushed' = PushedMore(id, s)
    /\ Ops' = Ops + 1
    /\ UNCHANGED formatVars

\* Buf.reserve(Cap)
Reserve ==
  \E id \in BufIds, Cap \in ReserveCaps :
    /\ Callable(id)
    /\ Commit(SmallBuf_reserve(Mem, id, Cap))
    /\ Last' = Call("reserve", id, 0, Cap, 0)
    /\ Pushed' = [Pushed EXCEPT ![id] = OtherCall]
    /\ Ops' = Ops + 1
    /\ UNCHANGED formatVars

\* Buf.resize(Count)
Resize ==
  \E id \in BufIds, Count \in ShrinkCounts :
    /\ Callable(id)
    /\ Commit(SmallBuf_resize(Mem, id, Count))
    /\ Last' = Call("resize", id, 0, Count, 0)
    /\ Pushed' = [Pushed EXCEPT ![id] = OtherCall]
    /\ Ops' = Ops + 1
    /\ UNCHANGED formatVars

\* Buf.resize(Count, Fill)
ResizeFill ==
  \E id \in BufIds, Count \in ResizeCounts :
    /\ Callable(id)
    /\ Commit(SmallBuf_resizeFill(Mem, id, Count, FillChar))
    /\ Last' = Call("resizeFill", id, 0, Count, FillChar)
    /\ Pushed' = [Pushed EXCEPT ![id] = OtherCall]
    /\ Ops' = Ops + 1
    /\ UNCHANGED formatVars

\* Buf.fill(Count, Fill)
Fill ==
  \E id \in BufIds, Count \in FillCounts :
    /\ Callable(id)
    /\ Commit(SmallBufImpl_fill(Mem, id, Count, FillChar))
    /\ Last' = Call("fill", id, 0, Count, FillChar)
    /\ Pushed' = [Pushed EXCEPT ![id] = OtherCall]
    /\ Ops' = Ops + 1
    /\ UNCHANGED formatVars

\* Buf = std::move(OtherBuf), between two distinct buffers
Move ==
  \E id \in BufIds, Other \in BufIds :
    /\ Callable(id)
    /\ Other # id
    /\ Bufs[Other].Alive
    /\ Commit(SmallBuf_assign(Mem, id, Other))
    /\ Last' = Call("move", id, Other, 0, 0)
    /\ Pushed' = [i \in BufIds |-> OtherCall]
    /\ Ops' = Ops + 1
    /\ UNCHANGED formatVars

\* Buf.wipe()
Wipe ==
  \E id \in BufIds :
    /\ Callable(id)
    /\ Commit(SmallBuf_wipe(Mem, id))
    /\ Last' = Call("wipe", id, 0, 0, 0)
    /\ Pushed' = [Pushed EXCEPT ![id] = OtherCall]
    /\ Ops' = Ops + 1
    /\ UNCHANGED formatVars

\* The end of testBuf: ~SmallBuf of OtherBuf, then of Buf
Destroy ==
  /\ entry = "testBuf"
  /\ \A id \in BufIds : Bufs[id].Alive
  /\ Commit(SmallBuf_dtor(SmallBuf_dtor(Mem, 2), 1))
  /\ Last' = Call("destroy", 1, 2, 0, 0)
  /\ UNCHANGED <<formatVars, Pushed, Ops>>

BufNext ==
  \/ PushBack
  \/ AppendStr
  \/ Reserve
  \/ Resize
  \/ ResizeFill
  \/ Fill
  \/ Move
  \/ Wipe
  \/ Destroy

BufSpec == BufInit /\ [][BufNext]_vars

-----------------------------------------------------------------------------
(* Properties.                                                             *)

hasBrace(s) == \E i \in 1..Len(s) : s[i] = Ord("{")

EngineDone == entry = "parseWith" /\ pc = "done"

\* C1: run on a format string that holds no '{' and on an empty argument
\* list, the engine appends exactly the bytes of the format string.
C1_LiteralOnly ==
  (EngineDone /\ Values = <<>> /\ ~hasBrace(lit)) => Buf.Bytes = lit

C1_Witness ==
  /\ EngineDone /\ Values = <<>> /\ ~hasBrace(lit)
  /\ Len(lit) >= 2
  /\ Buf.Bytes = lit

FormatReturned == entry = "format" /\ pc = "returned"

Text123 == Str(<<"1", "2", "3">>)

Arg123 == CStringValue(U64(4096), Text123)

\* C2: format(fmt, args...) returns the formatted bytes and no other byte:
\* format("Testing, {}!", "123") returns the 13 bytes "Testing, 123!", and
\* for a literal without '{' the returned string is as long as the literal.
C2_FormatReturnsExactly ==
  FormatReturned =>
    /\ (/\ lit = Str(<<"T", "e", "s", "t", "i", "n", "g", ",", " ",
                       "{", "}", "!">>)
        /\ Values = <<Arg123>>)
         => result = Str(<<"T", "e", "s", "t", "i", "n", "g", ",", " ",
                           "1", "2", "3", "!">>)
    /\ (~hasBrace(lit) /\ Values = <<>>) => Len(result) = Len(lit)

\* What format() is seen to return instead: the bytes followed by the
\* literal's terminator.
C2_Observed ==
  /\ FormatReturned
  /\ lit = Str(<<"T", "e", "s", "t", "i", "n", "g", ",", " ", "{", "}", "!">>)
  /\ Values = <<Arg123>>
  /\ result = Str(<<"T", "e", "s", "t", "i", "n", "g", ",", " ",
                    "1", "2", "3", "!">>) \o <<0>>

\* C3: in a format string of literal bytes and runs of '{', a run of
\* N >= 2 braces contributes N \div 2 '{' bytes wherever it stands; the
\* engine run on "{{" outputs "{" and on "{{{{" outputs "{{".
C3_BraceRuns ==
  (/\ EngineDone
   /\ Values = <<>>
   /\ Len(lit) \in {2, 4}
   /\ \A i \in 1..Len(lit) : lit[i] = Ord("{"))
    => Buf.Bytes = Repeat(Ord("{"), Len(lit) \div 2)

\* A run that ends the format string is dropped and reported as an
\* unterminated field.
C3_Observed ==
  /\ EngineDone
  /\ lit = Str(<<"{", "{">>)
  /\ Buf.Bytes = <<>>
  /\ diag

FieldBytes(seg) == seg.After - seg.Before

IsField(seg) == seg.Kind = "Format"

\* C4: a field of width W and base 1..32 given a non-generic argument
\* appends max(W, L) bytes, L being the bytes the writer emits, which is
\* also the width getValueSize predicts.
C4_FieldWidth ==
  pc # "ub" =>
    \A i \in 1..Len(segs) :
      (/\ IsField(segs[i])
       /\ ~isGenericType(segs[i].Value)
       /\ segs[i].Spec.Base \in 1..32)
        => FieldBytes(segs[i])
             = Max(segs[i].Spec.Align,
                   getValueSize(segs[i].Value, segs[i].Spec))

\* In unary the predicted width of an even value is one more than the
\* digits written.
C4_Observed ==
  /\ EngineDone
  /\ lit = Str(<<"{", ":", "#", "+", "3", "%", "r", "1", "}">>)
  /\ Values = <<UnsignedValue(U64(2))>>
  /\ Buf.Bytes = Str(<<"1", "1">>)

\* C5: the side byte of ':' pad [side] width is optional; "{:#9}" applied
\* to "123" writes "123######" and "{:#*}" applied to 6, "123" takes 6 as
\* the width and writes "123###".
C5_OptionalSide ==
  EngineDone =>
    /\ (lit = Str(<<"{", ":", "#", "9", "}">>) /\ Values = <<Arg123>>)
         => Buf.Bytes = Text123 \o Repeat(Ord("#"), 6)
    /\ (/\ lit = Str(<<"{", ":", "#", "*", "}">>)
        /\ Values = <<SignedValue(U64(6)), Arg123>>)
         => Buf.Bytes = Text123 \o Repeat(Ord("#"), 3)

\* The byte after the pad is always taken as the side: the width is lost.
C5_Observed ==
  /\ EngineDone
  /\ lit = Str(<<"{", ":", "#", "9", "}">>)
  /\ Values = <<Arg123>>
  /\ Buf.Bytes = Text123
  /\ diag

\* The bytes a segment appended
SegmentBytes(seg) == SubSeq(Buf.Bytes, seg.Before + 1, seg.After)

NumText(n) ==
  IF n < 10 THEN <<Ord("0") + n>>
  ELSE <<Ord("0") + (n \div 10), Ord("0") + (n % 10)>>

\* The option texts of C6 with the base and the alphabet each one names
RadixOptionTable ==
  { [text |-> Str(<<"%", "b">>), base |-> 2, upper |-> FALSE],
    [text |-> Str(<<"%", "o">>), base |-> 8, upper |-> FALSE],
    [text |-> Str(<<"%", "d">>), base |-> 10, upper |-> FALSE],
    [text |-> Str(<<"%", "x">>), base |-> 16, upper |-> FALSE],
    [text |-> Str(<<"%", "X">>), base |-> 16, upper |-> TRUE] }
  \cup {[text |-> Str(<<"%", "r">>) \o NumText(n), base |-> n,
         upper |-> FALSE] : n \in 2..32}
  \cup {[text |-> Str(<<"%", "R">>) \o NumText(n), base |-> n,
         upper |-> TRUE] : n \in 2..32}

\* The value of a digit byte in the given alphabet, -1 for any other byte
DigitValue(c, upper) ==
  IF isDigit(c) THEN c - Ord("0")
  ELSE IF upper /\ isUpper(c) THEN (c - Ord("A")) + 10
  ELSE IF ~upper /\ isLower(c) THEN (c - Ord("a")) + 10
  ELSE -1

\* The digits a natural below 2^22 can hold in the given base
ChunkLen(base) == 22 \div (BitLog(base - 1) + 1)

\* The value of at most ChunkLen(base) digits, most significant first
RECURSIVE ChunkValue(_, _, _)
ChunkValue(text, base, upper) ==
  IF Len(text) = 0 THEN 0
  ELSE IF Len(text) = 1 THEN DigitValue(text[1], upper)
  ELSE LET h == Len(text) \div 2
       IN  (ChunkValue(SubSeq(text, 1, h), base, upper)
              * Power(base, Len(text) - h))
             + ChunkValue(SubSeq(text, h + 1, Len(text)), base, upper)

\* Reading digits back, most significant first, as a 64-bit word: the
\* value of the leading digits times base^k plus the value of the last k
RECURSIVE ReadBack(_, _, _)
ReadBack(text, base, upper) ==
  LET k == ChunkLen(base)
  IN  IF Len(text) <= k
      THEN MulAdd64(Zero64, 1, ChunkValue(text, base, upper))
      ELSE MulAdd64(ReadBack(SubSeq(text, 1, Len(text) - k), base, upper),
                    Power(base, k),
                    ChunkValue(SubSeq(text, Len(text) - k + 1, Len(text)),
                               base, upper))

Positional(text, base, upper, v) ==
  /\ Len(text) \in 1..64
  /\ \A k \in 1..Len(text) : DigitValue(text[k], upper) \in 0..(base - 1)
  /\ text[1] = Ord("0") => Len(text) = 1
  /\ ReadBack(text, base, upper) = v

EngineRan(text, args) == EngineDone /\ lit = text /\ Values = args

\* C6: with %b, %o, %d, %x, %X, %r<n> or %R<n> (n in 2..32) an unsigned
\* argument v is written in positional notation in that base: most
\* significant digit first, no leading zero, "0" for 0, digits 0-9a-z
\* (0-9A-Z for the uppercase letters); reading the digits back gives v.
\* 42 is written 101010, 52 and 2A, and 789942 in %r5 as 200234232.
C6_Positional ==
  /\ \A i \in 1..Len(segs) : \A o \in RadixOptionTable :
       (/\ IsField(segs[i])
        /\ isUIntType(segs[i].Value, FALSE)
        /\ segs[i].Spec.Data = o.text)
         => Positional(SegmentBytes(segs[i]), o.base, o.upper,
                       segs[i].Value.Int)
  /\ EngineRan(Str(<<"{", "%", "b", "}">>), <<UnsignedValue(U64(42))>>)
       => Buf.Bytes = Str(<<"1", "0", "1", "0", "1", "0">>)
  /\ EngineRan(Str(<<"{", "%", "o", "}">>), <<UnsignedValue(U64(42))>>)
       => Buf.Bytes = Str(<<"5", "2">>)
  /\ EngineRan(Str(<<"{", "%", "X", "}">>), <<UnsignedValue(U64(42))>>)
       => Buf.Bytes = Str(<<"2", "A">>)
  /\ EngineRan(Str(<<"{", "%", "r", "5", "}">>),
               <<UnsignedValue(U64(789942))>>)
       => Buf.Bytes = Str(<<"2", "0", "0", "2", "3", "4", "2", "3", "2">>)

C6_Witness ==
  /\ EngineRan(Str(<<"{", "%", "R", "3", "1", "}">>),
               <<UnsignedLLValue(UINT64_MAX)>>)
  /\ Len(segs) = 1
  /\ Positional(SegmentBytes(segs[1]), 31, TRUE, UINT64_MAX)

\* The bytes IntFormat<Base>::Write put into the bridge's buffer
BridgeWritten ==
  size(BridgeBuf) - (4 + Len(DecDigits(U64(BridgeCount))))

BridgeCounted == entry = "format_custom" /\ pc \in {"flush", "done"}

\* C7: for every 64-bit v and base 1..32 the renderer's Count(v) is the
\* number of bytes its Write(v) appends (v = 0 and base 1 included).
C7_CountIsWritten == BridgeCounted => BridgeCount = BridgeWritten

\* Unary: Count(2) is 3 and Write(2) appends "11"
C7_Observed ==
  /\ BridgeCounted
  /\ IRad = [Val |-> U64(2), Radix |-> 1]
  /\ BridgeCount = 3
  /\ BridgeBuf.Bytes = Str(<<"{", "1", "1", ",", " ", "3", "}">>)

Padded(text, body, pad) ==
  \E k \in 0..(Len(text) - Len(body)) :
    text = Repeat(pad, k) \o body
             \o Repeat(pad, Len(text) - (Len(body) + k))

UnsignedDigits(base, v, upper) ==
  IntFormatWrite(base, NewSmallBuf(1), v, upper).Bytes

\* C8: a negative signed argument v (down to the minimum value) is written
\* as '-' followed by the unsigned rendering of |v|, and the predicted
\* width is the digit count of |v| plus one; "{: -10%x}" applied to -123
\* writes seven spaces and "-7b".
C8_NegativeSigned ==
  /\ \A i \in 1..Len(segs) :
       (/\ IsField(segs[i])
        /\ isSIntType(segs[i].Value, FALSE)
        /\ IsNeg64(segs[i].Value.Int)
        /\ segs[i].Spec.Base \in 1..32)
         => /\ pc # "ub"
            /\ Padded(SegmentBytes(segs[i]),
                      <<Ord("-")>>
                        \o UnsignedDigits(segs[i].Spec.Base,
                                          Neg64(segs[i].Value.Int),
                                          segs[i].Spec.Extra
                                            \in {"Uppercase", "Ptr"}),
                      segs[i].Spec.Pad)
            /\ getValueSize(segs[i].Value, segs[i].Spec)
                 = IntFormatCount(segs[i].Spec.Base,
                                  Neg64(segs[i].Value.Int)) + 1
  /\ EngineRan(Str(<<"{", ":", " ", "-", "1", "0", "%", "x", "}">>),
               <<SignedValue(Neg64(U64(123)))>>)
       => Buf.Bytes = Repeat(Ord(" "), 7) \o Str(<<"-", "7", "b">>)

\* At the minimum value std::llabs overflows; a build that traps stops
\* inside the field.
C8_Observed ==
  /\ pc = "ub"
  /\ Len(segs) = 1
  /\ segs[1].Value = SignedLLValue(LLONG_MIN)
  /\ segs[1].Spec.Base = 10
  /\ Buf.Bytes = <<>>

DynamicText(Data) ==
  Len(Data) >= 4 /\ Data[1] = Ord(":") /\ Data[4] = Ord("*")

TestingPlus9 ==
  Str(<<"T", "e", "s", "t", "i", "n", "g", ",", " ",
        "{", ":", " ", "+", "9", "}", "!">>)

Testing123 ==
  Str(<<"T", "e", "s", "t", "i", "n", "g", ",", " ", "1", "2", "3">>)

\* C10 as the specification states it: format("Testing, {: +9}!", 123)
\* returns "Testing, 123++++++!", six '+' bytes padding 123 on the right.
C10_PlusPadding ==
  (FormatReturned /\ lit = TestingPlus9 /\ Values = <<SignedValue(U64(123))>>)
    => result = Testing123 \o Repeat(Ord("+"), 6) \o <<Ord("!")>>

\* C10: in "{: +9}" the pad byte is the space after ':' and '+' is the
\* side: the engine writes "Testing, 123      !" with six spaces, and
\* format() returns these bytes followed by the literal's terminator.
C10_SpacePadding ==
  (lit = TestingPlus9 /\ Values = <<SignedValue(U64(123))>>)
    => /\ EngineDone
            => Buf.Bytes = Testing123 \o Repeat(Ord(" "), 6) \o <<Ord("!")>>
       /\ FormatReturned
            => result = Testing123 \o Repeat(Ord(" "), 6) \o <<Ord("!"), 0>>

C10_Witness ==
  /\ FormatReturned
  /\ lit = TestingPlus9
  /\ Values = <<SignedValue(U64(123))>>
  /\ result = Testing123 \o Repeat(Ord(" "), 6) \o <<Ord("!"), 0>>

\* The bytes the writer emits for a value under a descriptor
Rendered(Value, Repl) == writeValue(NewSmallBuf(1), Value, Repl).Buf.Bytes

CentredField(seg) ==
  /\ IsField(seg)
  /\ seg.Spec.Side = "Center"
  /\ seg.Spec.Base \in 1..32
  /\ ~isGenericType(seg.Value)
  /\ Len(Rendered(seg.Value, seg.Spec)) <= seg.Spec.Align

\* C11: a centred field of width W whose value renders in L <= W bytes is
\* written as floor(P/2) pad bytes, the value, and P - floor(P/2) pad
\* bytes, P = W - L, whatever the category of the argument.
C11_CentreSplit ==
  pc # "ub" =>
    \A i \in 1..Len(segs) :
      CentredField(segs[i])
        => LET body == Rendered(segs[i].Value, segs[i].Spec)
               P    == segs[i].Spec.Align - Len(body)
           IN  SegmentBytes(segs[i])
                 = Repeat(segs[i].Spec.Pad, P \div 2) \o body
                     \o Repeat(segs[i].Spec.Pad, P - (P \div 2))

\* "{:0=7%r1}" with 2: the unary rendering "11" between two and two zeros,
\* six bytes in a field of seven
C11_Observed ==
  /\ EngineRan(Str(<<"{", ":", "0", "=", "7", "%", "r", "1", "}">>),
               <<UnsignedValue(U64(2))>>)
  /\ Len(segs) = 1 /\ CentredField(segs[1])
  /\ Buf.Bytes = Str(<<"0", "0", "1", "1", "0", "0">>)

\* The centred fields in bases 2..32 split as C11 states
C11_CentreSplitAbove1 ==
  pc # "ub" =>
    \A i \in 1..Len(segs) :
      (CentredField(segs[i]) /\ segs[i].Spec.Base # 1)
        => LET body == Rendered(segs[i].Value, segs[i].Spec)
               P    == segs[i].Spec.Align - Len(body)
           IN  SegmentBytes(segs[i])
                 = Repeat(segs[i].Spec.Pad, P \div 2) \o body
                     \o Repeat(segs[i].Spec.Pad, P - (P \div 2))

CharField(seg) ==
  /\ IsField(seg)
  /\ seg.Spec.Extra = "Char"
  /\ seg.Value.Type \in {"CStringType", "StdStringType", "StringViewType"}

\* C12: a field with the c/C extra given a string (C string, std::string
\* or string view) writes exactly one byte of it, the first byte of the
\* string or ' ' when the string is empty or the C string is a null
\* pointer, and the width predicted for the padding is 1.
C12_CharOfString ==
  pc # "ub" =>
    \A i \in 1..Len(segs) :
      CharField(segs[i])
        => /\ Rendered(segs[i].Value, segs[i].Spec)
                = <<IF segs[i].Value.Null \/ Len(segs[i].Value.Str) = 0
                    THEN Ord(" ") ELSE segs[i].Value.Str[1]>>
           /\ Padded(SegmentBytes(segs[i]),
                     Rendered(segs[i].Value, segs[i].Spec), segs[i].Spec.Pad)
           /\ FieldBytes(segs[i]) = Max(1, segs[i].Spec.Align)
           /\ getValueSize(segs[i].Value, segs[i].Spec) = 1

\* "{%c}" with the C string "": the byte written is its terminator
C12_Observed ==
  /\ EngineRan(Str(<<"{", "%", "c", "}">>), <<CStringValue(U64(4096), <<>>)>>)
  /\ Len(segs) = 1 /\ CharField(segs[1])
  /\ Buf.Bytes = <<0>>

\* Every string but the empty C string behaves as C12 states
C12_CharOfStringNonEmptyC ==
  pc # "ub" =>
    \A i \in 1..Len(segs) :
      (/\ CharField(segs[i])
       /\ ~(/\ segs[i].Value.Type = "CStringType" /\ ~segs[i].Value.Null
            /\ Len(segs[i].Value.Str) = 0))
        => /\ Rendered(segs[i].Value, segs[i].Spec)
                = <<IF segs[i].Value.Null \/ Len(segs[i].Value.Str) = 0
                    THEN Ord(" ") ELSE segs[i].Value.Str[1]>>
           /\ Padded(SegmentBytes(segs[i]),
                     Rendered(segs[i].Value, segs[i].Spec), segs[i].Spec.Pad)
           /\ FieldBytes(segs[i]) = Max(1, segs[i].Spec.Align)
           /\ getValueSize(segs[i].Value, segs[i].Spec) = 1

\* parseWith reads the width of a '*' field through the null pointer that
\* take() returns on an exhausted argument list
AbsentArgumentRead ==
  /\ pc = "ub"
  /\ ParsedReplacement.Align = dynamicAlign
  /\ Vs = Len(Values)

\* write(FmtValue) falls through every category to SLIMFMT_UNREACHABLE
UnreachableReached ==
  /\ pc = "ub"
  /\ segs # <<>>
  /\ segs[Len(segs)].Value.Type = "CharType"
  /\ segs[Len(segs)].Spec.Extra = "Char"

\* C13: whatever the format string and the argument list (too few or too
\* many arguments, any argument type under any extra), a call runs to
\* completion: it never reads an argument that is absent and never reaches
\* a branch marked unreachable.
C13_RunsToCompletion == ~AbsentArgumentRead /\ ~UnreachableReached

\* "{%c}" with the char 'A' ends in the unreachable branch of the writer
C13_Observed ==
  /\ UnreachableReached
  /\ lit = Str(<<"{", "%", "c", "}">>)
  /\ Values = <<CharValue(Ord("A"))>>

\* A '*' field on an empty argument list reads its width through null
C13_ObservedAbsent ==
  /\ AbsentArgumentRead
  /\ Values = <<>>
  /\ Buf.Bytes = <<>>

\* Apart from these two and the overflow of llabs (C8) every call ends
C13_OtherwiseCompletes ==
  pc = "ub" =>
    \/ AbsentArgumentRead
    \/ UnreachableReached
    \/ (segs # <<>> /\ segs[Len(segs)].Value = SignedLLValue(LLONG_MIN))

-----------------------------------------------------------------------------
(* The buffers of testBuf.                                                 *)

\* C14: whatever the inline capacity, after any sequence of pushBack and
\* appendStr calls (reallocations included) the bytes [0, length) of the
\* buffer are the pushed and appended bytes in call order, and the length
\* is their count.
C14_Concatenation ==
  \A id \in BufIds :
    (Bufs[id].Alive /\ Pushed[id].Only) =>
      /\ Bufs[id].Size = Len(Pushed[id].Bytes)
      /\ Contents(Mem, id) = Pushed[id].Bytes

\* SmallBuf<2>: 'H', "ok" and "Rahhh!" arrive through two reallocations
C14_Witness ==
  /\ entry = "testBuf"
  /\ Bufs[1].InlinedSize = 2
  /\ Pushed[1].Only
  /\ Pushed[1].Bytes = Str(<<"H", "o", "k", "R", "a", "h", "h", "h", "!">>)
  /\ Contents(Mem, 1) = Pushed[1].Bytes
  /\ Len(Heap) = 2
  /\ ~Heap[1].Live
  /\ Bufs[1].Data = HeapPtr(2)

\* C15: after Dst = std::move(Src) between two distinct buffers, whatever
\* their storage, capacities and lengths, Dst holds exactly the bytes Src
\* held and Src has length 0.
C15_MoveTransfers ==
  Last.Op = "move" =>
    /\ Contents(Mem, Last.Id) = Last.OtherBefore
    /\ Bufs[Last.Other].Size = 0

\* The receiver took the heap block of a source that held bytes: the block
\* and its bytes are the receiver's, and the receiver's length is 0
C15_Observed ==
  /\ Last.Op = "move"
  /\ Last.Taken
  /\ Last.OtherBefore # <<>>
  /\ Bufs[Last.Id].Data.Kind = "heap"
  /\ Load(Mem, Bufs[Last.Id].Data, Len(Last.OtherBefore)) = Last.OtherBefore
  /\ Bufs[Last.Id].Size = 0
  /\ Bufs[Last.Other].Size = 0

\* On every other path of move the bytes arrive
C15_MoveCopies ==
  (Last.Op = "move" /\ ~Last.Taken) =>
    /\ Contents(Mem, Last.Id) = Last.OtherBefore
    /\ Bufs[Last.Other].Size = 0

C15_MoveCopiesWitness ==
  /\ Last.Op = "move"
  /\ ~Last.Taken
  /\ Len(Last.OtherBefore) = 6
  /\ Len(Last.Before) > 0
  /\ Contents(Mem, Last.Id) = Last.OtherBefore

AllDestroyed == entry = "testBuf" /\ \A id \in BufIds : ~Bufs[id].Alive

\* C16: over any sequence of push, append, reserve, resize, move and wipe
\* calls on the buffers, followed by the destruction of all of them, every
\* heap block that was allocated is freed exactly once (never twice, and
\* none is left), and at no time is one heap block the data pointer of two
\* buffers.
C16_HeapBlocks ==
  /\ \A k \in DOMAIN Heap : Heap[k].Frees = IF Heap[k].Live THEN 0 ELSE 1
  /\ AllDestroyed => \A k \in DOMAIN Heap : Heap[k].Frees = 1
  /\ \A i \in BufIds, j \in BufIds :
       (i # j /\ Bufs[i].Alive /\ Bufs[j].Alive
          /\ Bufs[i].Data.Kind = "heap") => Bufs[i].Data # Bufs[j].Data

\* Both buffers are destroyed; OtherBuf had been moved from while it was
\* heap-backed (its Data is nullptr), and three blocks or more were freed
C16_Witness ==
  /\ AllDestroyed
  /\ Bufs[2].Data = nullptr
  /\ Bufs[1].Data.Kind = "heap"
  /\ Len(Heap) >= 3
  /\ \A k \in DOMAIN Heap : Heap[k].Frees = 1 /\ ~Heap[k].Live

\* What resize(n, b) must leave of a buffer that held the bytes old
Resized(id, old, n, b) ==
  LET now == Contents(Mem, id)
      kept == Min(Len(old), n)
  IN  /\ Bufs[id].Size = n
      /\ SubSeq(now, 1, kept) = SubSeq(old, 1, kept)
      /\ \A i \in (Len(old) + 1)..n : now[i] = b

\* C17: in every reachable state of a buffer, resize(n, b) sets the length
\* to n; growing, the bytes [old, n) are b and the bytes [0, old) are
\* unchanged; shrinking, the bytes [0, n) are unchanged; and fill(k, b) does
\* what resize(length + k, b) does.
C17_ResizeFill ==
  /\ Last.Op = "resizeFill" =>
       Resized(Last.Id, Last.Before, Last.Count, Last.Fill)
  /\ Last.Op = "fill" =>
       Resized(Last.Id, Last.Before, Len(Last.Before) + Last.Count,
               Last.Fill)

\* OtherBuf was heap-backed, Buf (a SmallBuf<2>, now of capacity 8) took
\* its block, OtherBuf.wipe() brought the inline storage back, and
\* OtherBuf.resize(3, '.') is the fourth call
C17_Witness ==
  /\ Last.Op = "resizeFill"
  /\ Last.Id = 2
  /\ Last.Count = 3
  /\ Ops = 4
  /\ Bufs[1].InlinedSize = 2
  /\ Bufs[1].Capacity = 8
  /\ Bufs[1].Data.Kind = "heap"
  /\ Bufs[2].Data = StoragePtr(2)
  /\ Contents(Mem, 2) = <<FillChar, FillChar, FillChar>>

\* Growing over bytes that stay, through a reallocation
C17_GrowWitness ==
  /\ Last.Op = "fill"
  /\ Len(Last.Before) = 6
  /\ Bufs[Last.Id].InlinedSize = 0
  /\ Len(Contents(Mem, Last.Id)) = 8
  /\ Bufs[Last.Id].Capacity = 12

-----------------------------------------------------------------------------
(* Failing segments.  The grammar of a field, as the format strings are    *)
(* documented:                                                             *)
(*   replacement := "{" [alignment] [options] "}"                          *)
(*   alignment   := ":" pad_char [side] width                              *)
(*   options     := "%" (radix_base | alpha_base) [extra]                  *)

SideChars == {Ord("<"), Ord("+"), Ord(">"), Ord("-"), Ord(" "), Ord("=")}

AlphaBaseChars ==
  {Ord("b"), Ord("B"), Ord("o"), Ord("O"), Ord("d"), Ord("D"), Ord("x"),
   Ord("X"), Ord("h"), Ord("H")}

ExtraChars == {Ord("p"), Ord("P"), Ord("c"), Ord("C")}

AllDigits(t) == Len(t) > 0 /\ \A i \in 1..Len(t) : isDigit(t[i])

IsWidth(w) == w = <<Ord("*")>> \/ AllDigits(w)

IsAlignment(a) ==
  /\ Len(a) >= 3
  /\ a[1] = Ord(":")
  /\ a[2] >= 32 /\ a[2] <= 126
  /\ \/ IsWidth(SubSeq(a, 3, Len(a)))
     \/ a[3] \in SideChars /\ IsWidth(SubSeq(a, 4, Len(a)))

IsGrammarBase(b) ==
  \/ Len(b) = 1 /\ b[1] \in AlphaBaseChars
  \/ Len(b) >= 2 /\ b[1] \in {Ord("r"), Ord("R")} /\ AllDigits(Tail(b))

IsOptions(o) ==
  /\ Len(o) >= 2
  /\ o[1] = Ord("%")
  /\ \/ IsGrammarBase(Tail(o))
     \/ /\ Len(o) >= 3
        /\ o[Len(o)] \in ExtraChars
        /\ IsGrammarBase(SubSeq(o, 2, Len(o) - 1))

\* The text between the braces matches the grammar end to end
MatchesGrammar(text) ==
  \E k \in 0..Len(text) :
    /\ k = 0 \/ IsAlignment(SubSeq(text, 1, k))
    /\ k = Len(text) \/ IsOptions(SubSeq(text, k + 1, Len(text)))

\* A field of the grammar whose width is '*'
DynamicField(text) ==
  \E k \in 3..Len(text) :
    /\ IsAlignment(SubSeq(text, 1, k))
    /\ text[k] = Ord("*")
    /\ k = Len(text) \/ IsOptions(SubSeq(text, k + 1, Len(text)))

\* How much of the format string a dispatched segment stands for: a field
\* and its braces, a run of doubled braces, or the literal itself
OnlyBraces(t) == Len(t) > 0 /\ \A i \in 1..Len(t) : t[i] = Ord("{")

Consumed(seg) ==
  IF IsField(seg) THEN Len(seg.Spec.Data) + 2
  ELSE IF OnlyBraces(seg.Spec.Data) THEN 2 * Len(seg.Spec.Data)
  ELSE Len(seg.Spec.Data)

RECURSIVE ConsumedUpTo(_)
ConsumedUpTo(k) ==
  IF k = 0 THEN 0 ELSE ConsumedUpTo(k - 1) + Consumed(segs[k])

\* What follows the first k dispatched segments, and the arguments left
RestAfter(k) == SubSeq(lit, ConsumedUpTo(k) + 1, Len(lit))

ArgsLeftAfter(k) ==
  Len(Values) - (IF k = 0 THEN 0 ELSE segs[k].First + segs[k].Taken)

Positions(t, c) == {i \in 1..Len(t) : t[i] = c}

SetMin(S) == CHOOSE x \in S : \A y \in S : x <= y

\* The rest starts a field: one '{' that is not doubled
StartsField(rest) ==
  /\ Len(rest) > 0
  /\ rest[1] = Ord("{")
  /\ Len(rest) = 1 \/ rest[2] # Ord("{")

Unterminated(rest) == StartsField(rest) /\ Positions(rest, Ord("}")) = {}

\* The rest starts with a closed field holding no further '{'
ClosedField(rest) ==
  /\ StartsField(rest)
  /\ Positions(rest, Ord("}")) # {}
  /\ \A i \in Positions(rest, Ord("{")) :
       i = 1 \/ i > SetMin(Positions(rest, Ord("}")))

FieldText(rest) == SubSeq(rest, 2, SetMin(Positions(rest, Ord("}"))) - 1)

InvalidField(rest) == ClosedField(rest) /\ ~MatchesGrammar(FieldText(rest))

NoArgumentLeft(rest, left) ==
  /\ ClosedField(rest)
  /\ MatchesGrammar(FieldText(rest))
  /\ left < (IF DynamicField(FieldText(rest)) THEN 2 ELSE 1)

FailsAfter(k) ==
  \/ Unterminated(RestAfter(k))
  \/ InvalidField(RestAfter(k))
  \/ NoArgumentLeft(RestAfter(k), ArgsLeftAfter(k))

\* C18: when a format call meets an unterminated '{', a syntactically
\* invalid field, or a field for which no argument is left, parsing stops
\* there: no later segment is dispatched, and the buffer holds exactly
\* the bytes of the segments that precede the failing one.
C18_StopsAtFailure ==
  entry = "parseWith" =>
    \A k \in 0..Len(segs) :
      FailsAfter(k) =>
        /\ Len(segs) = k
        /\ pc # "ub"
        /\ Len(Buf.Bytes) = IF k = 0 THEN 0 ELSE segs[k].After

\* "{%q}": the field does not match the grammar, and yet it was dispatched
\* and the decimal digits of its argument were written
C18_Observed ==
  /\ EngineDone
  /\ lit = Str(<<"{", "%", "q", "}">>)
  /\ InvalidField(RestAfter(0))
  /\ Values = <<UnsignedValue(U64(42))>>
  /\ Len(segs) = 1
  /\ IsField(segs[1])
  /\ Buf.Bytes = Str(<<"4", "2">>)

\* Where the parser itself rejects the field, where the '{' is never
\* closed, and where the argument list ends before a field that has no
\* dynamic width to read first, parsing does stop as described
RejectedAfter(k) ==
  LET rest == RestAfter(k)
  IN  \/ Unterminated(rest)
      \/ ClosedField(rest) /\ ~parseReplacementSpec(FieldText(rest)).Ret
      \/ /\ NoArgumentLeft(rest, ArgsLeftAfter(k))
         /\ IF parseReplacementSpec(FieldText(rest)).PR.Align = dynamicAlign
            THEN ArgsLeftAfter(k) = 1
            ELSE ArgsLeftAfter(k) = 0

C18_StopsWhereRejected ==
  entry = "parseWith" =>
    \A k \in 0..Len(segs) :
      RejectedAfter(k) =>
        /\ Len(segs) = k
        /\ pc # "ub"
        /\ Len(Buf.Bytes) = IF k = 0 THEN 0 ELSE segs[k].After

C18_StopsWhereRejectedWitness ==
  /\ EngineDone
  /\ Len(segs) = 1
  /\ RejectedAfter(1)
  /\ Len(RestAfter(1)) >= 2
  /\ Buf.Bytes # <<>>
  /\ Len(Buf.Bytes) = segs[1].After

\* The options of the field are r<n> or R<n>, and n is not in 1..32
BadRadixText(text) ==
  \E k \in 1..Len(text) :
    /\ k = 1 \/ IsAlignment(SubSeq(text, 1, k - 1))
    /\ text[k] = Ord("%")
    /\ IsGrammarBase(SubSeq(text, k + 1, Len(text)))
    /\ text[k + 1] \in {Ord("r"), Ord("R")}
    /\ doFromChars(SubSeq(text, k + 2, Len(text))).Val \notin 1..32

BadRadixField(seg) ==
  /\ IsField(seg)
  /\ BadRadixText(seg.Spec.Data)
  /\ isIntType(seg.Value, FALSE)

OnlyPadBytes(seg) ==
  \A j \in 1..FieldBytes(seg) : SegmentBytes(seg)[j] = seg.Spec.Pad

\* C19: a field whose radix is r<n> with n outside 1..32, given any integer
\* argument (zero, positive or negative), contributes only pad bytes (no
\* digit, sign or prefix of the argument), and an error is reported.
C19_BadRadixPadsOnly ==
  entry = "parseWith" =>
    \A i \in DOMAIN segs :
      BadRadixField(segs[i]) => OnlyPadBytes(segs[i]) /\ diag

\* "{%r33}" with -123: the sign is written
C19_Observed ==
  /\ EngineDone
  /\ lit = Str(<<"{", "%", "r", "3", "3", "}">>)
  /\ Values = <<SignedValue(Neg64(U64(123)))>>
  /\ Len(segs) = 1
  /\ BadRadixField(segs[1])
  /\ Buf.Bytes = Str(<<"-">>)
  /\ diag

\* "{%r33}" with 0: the digit 0 is written
C19_ObservedZero ==
  /\ EngineDone
  /\ lit = Str(<<"{", "%", "r", "3", "3", "}">>)
  /\ Values = <<UnsignedValue(U64(0))>>
  /\ Buf.Bytes = Str(<<"0">>)

\* For a positive argument the field is pad bytes, as many as the width
C19_PositivePadsOnly ==
  entry = "parseWith" =>
    \A i \in DOMAIN segs :
      (/\ BadRadixField(segs[i])
       /\ ~IsNeg64(segs[i].Value.Int)
       /\ segs[i].Value.Int # Zero64) =>
        /\ SegmentBytes(segs[i]) = Repeat(segs[i].Spec.Pad, segs[i].Spec.Align)
        /\ diag

C19_PositiveWitness ==
  /\ EngineDone
  /\ Len(segs) = 1
  /\ BadRadixField(segs[1])
  /\ segs[1].Value = UnsignedValue(U64(42))
  /\ Buf.Bytes = Repeat(Ord("#"), 3)

\* C20: whenever the parser of a field yields a descriptor of kind Format,
\* the whole text of the field matched the grammar end to end (an unknown
\* option byte, a width that is no decimal number, or bytes after the base
\* yield the Empty descriptor instead).
C20_FormatMatchesGrammar ==
  (entry = "parseWith" /\ ParsedReplacement.Type = "Format") =>
    MatchesGrammar(ParsedReplacement.Data)

\* "{%q}": an unknown option byte, and a Format descriptor of base 10
C20_Observed ==
  /\ entry = "parseWith"
  /\ pc = "body"
  /\ lit = Str(<<"{", "%", "q", "}">>)
  /\ ParsedReplacement.Type = "Format"
  /\ ParsedReplacement.Data = Str(<<"%", "q">>)
  /\ ParsedReplacement.Base = 10
  /\ ~MatchesGrammar(ParsedReplacement.Data)

\* "{: +3x}" and "{%xyz}": a width that is no number, bytes after the base
C20_ObservedWidth ==
  /\ entry = "parseWith"
  /\ pc = "body"
  /\ ParsedReplacement.Type = "Format"
  /\ ParsedReplacement.Data = Str(<<":", " ", "+", "3", "x">>)
  /\ ParsedReplacement.Align = 3

C20_ObservedTrailing ==
  /\ entry = "parseWith"
  /\ pc = "body"
  /\ ParsedReplacement.Type = "Format"
  /\ ParsedReplacement.Data = Str(<<"%", "x", "y", "z">>)
  /\ ParsedReplacement.Base = 16

\* The descriptor is Empty exactly where parseReplacementSpec returns false:
\* ":" alone, a rest that does not start with '%', and '%' alone
RejectedText(text) ==
  \/ text = <<Ord(":")>>
  \/ /\ Len(text) > 0
     /\ LET Rest == IF text[1] = Ord(":")
                    THEN parseRSpecAlign(
                           parseRSpecSide(removePrefix(text, 2)).Spec).Spec
                    ELSE text
        IN  Len(Rest) > 0 /\ (Rest[1] # Ord("%") \/ Len(Rest) <= 1)

C20_EmptyWhereRejected ==
  (entry = "parseWith" /\ pc = "parse" /\ segs = <<>>
     /\ ClosedField(lit)) =>
    (parseReplacementSpec(FieldText(lit)).PR.Type = "Empty"
       <=> RejectedText(FieldText(lit)))

-----------------------------------------------------------------------------
(* The options and the value categories.                                   *)

\* The options of a field text: what follows its alignment
IsOptionsOf(o, text) ==
  \E k \in 1..Len(text) :
    /\ k = 1 \/ IsAlignment(SubSeq(text, 1, k - 1))
    /\ o = SubSeq(text, k, Len(text))
    /\ Len(o) >= 2
    /\ o[1] = Ord("%")

\* A base, or nothing, and then the letter e as the last byte
EndsWithExtra(o, letters) ==
  /\ o[Len(o)] \in letters
  /\ Len(o) = 2 \/ IsGrammarBase(SubSeq(o, 2, Len(o) - 1))

OptionTails(text) ==
  {SubSeq(text, k, Len(text)) : k \in 1..Len(text)}

\* C21: when the options end with p/P or c/C the descriptor has extra Ptr
\* or Char, for every base that precedes the letter (b, o, d, x, h, r<n>
\* and their uppercase forms); when p/P is the only option the base is 16.
C21_ExtraLetter ==
  (entry = "parseWith" /\ ParsedReplacement.Type = "Format") =>
    \A o \in OptionTails(ParsedReplacement.Data) :
      IsOptionsOf(o, ParsedReplacement.Data) =>
        /\ EndsWithExtra(o, {Ord("p"), Ord("P")}) =>
             ParsedReplacement.Extra = "Ptr"
        /\ EndsWithExtra(o, {Ord("c"), Ord("C")}) =>
             ParsedReplacement.Extra = "Char"
        /\ (Len(o) = 2 /\ o[2] \in {Ord("p"), Ord("P")}) =>
             ParsedReplacement.Base = 16

\* "{%Xc}": the extra of the descriptor is Uppercase, not Char
C21_Observed ==
  /\ entry = "parseWith"
  /\ pc = "body"
  /\ ParsedReplacement.Type = "Format"
  /\ ParsedReplacement.Data = Str(<<"%", "X", "c">>)
  /\ ParsedReplacement.Base = 16
  /\ ParsedReplacement.Extra = "Uppercase"

\* After b, o, d, x, h, r<n>, B, O and D, and alone, the letter decides
UppercaseSetter(o) == o[2] \in {Ord("X"), Ord("H"), Ord("R")}

C21_ExtraLetterKept ==
  (entry = "parseWith" /\ ParsedReplacement.Type = "Format") =>
    \A o \in OptionTails(ParsedReplacement.Data) :
      (IsOptionsOf(o, ParsedReplacement.Data) /\ ~UppercaseSetter(o)) =>
        /\ EndsWithExtra(o, {Ord("p"), Ord("P")}) =>
             ParsedReplacement.Extra = "Ptr"
        /\ EndsWithExtra(o, {Ord("c"), Ord("C")}) =>
             ParsedReplacement.Extra = "Char"
        /\ (Len(o) = 2 /\ o[2] \in {Ord("p"), Ord("P")}) =>
             ParsedReplacement.Base = 16

C21_ExtraLetterKeptWitness ==
  /\ entry = "parseWith"
  /\ pc = "body"
  /\ ParsedReplacement.Data = Str(<<"%", "r", "5", "P">>)
  /\ ParsedReplacement.Extra = "Ptr"

\* Whether the options of a field name their base as r<n> or R<n>
RadixGiven(text) ==
  \E o \in OptionTails(text) :
    IsOptionsOf(o, text) /\ Len(o) >= 2 /\ o[2] \in {Ord("r"), Ord("R")}

\* The letter after the leading '0' of a pointer
PtrBaseLetter(seg) ==
  IF RadixGiven(seg.Spec.Data) THEN Ord("z")
  ELSE IF seg.Spec.Base = 2 THEN Ord("b")
  ELSE IF seg.Spec.Base = 8 THEN Ord("o")
  ELSE IF seg.Spec.Base = 10 THEN Ord("d")
  ELSE IF seg.Spec.Base = 16 THEN Ord("x")
  ELSE Ord("z")

\* The digits of an address in a base
AddressDigits(Addr, Base, Upper) ==
  IF IsZero64(Addr) THEN <<Ord("0")>>
  ELSE IntFormatWrite(Base, NewSmallBuf(4), Addr, Upper).Bytes

\* The unpadded fields that rendered a pointer
PtrSegment(seg) ==
  /\ seg.Kind = "Format"
  /\ isPtrType(seg.Value, seg.Spec.Extra = "Ptr")
  /\ seg.Spec.Base \in 2..32
  /\ seg.Spec.Align = 0

PtrDigitsWritten(seg) ==
  LET bytes == SegmentBytes(seg)
      Addr  == getPtr(seg.Value, TRUE)
  IN  /\ Len(bytes) = countDigitsDispatch(Addr, seg.Spec.Base) + 2
      /\ Len(bytes) = Len(AddressDigits(Addr, seg.Spec.Base, TRUE)) + 2
      /\ bytes[1] = Ord("0")
      /\ \E Upper \in IF seg.Spec.Extra = "Ptr" THEN {TRUE} ELSE BOOLEAN :
            SubSeq(bytes, 3, Len(bytes))
              = AddressDigits(Addr, seg.Spec.Base, Upper)

\* C22: a pointer is written as '0', the letter of its base ('b', 'o', 'd'
\* or 'x' for 2, 8, 10 or 16, 'z' for a radix given as r<n>) and the
\* address in that base, in uppercase digits under the Ptr extra; the
\* bytes written are as many as the predicted width, the digit count of
\* the address plus 2, for the null pointer too.
C22_PointerWriter ==
  \A i \in 1..Len(segs) :
    PtrSegment(segs[i]) =>
      /\ PtrDigitsWritten(segs[i])
      /\ SegmentBytes(segs[i])[2] = PtrBaseLetter(segs[i])

\* "{%x}" over the address 0xDEAD is written as "0zdead"
C22_Observed ==
  /\ entry = "parseWith"
  /\ pc = "done"
  /\ lit = Str(<<"{", "%", "x", "}">>)
  /\ Values = <<PtrValue(U64(57005))>>
  /\ Buf.Bytes = Str(<<"0", "z", "d", "e", "a", "d">>)

\* What holds of the pointer writer: '0', then 'z' whatever the base, then
\* the address, as many bytes as predicted
C22_PointerDigits ==
  \A i \in 1..Len(segs) :
    PtrSegment(segs[i]) =>
      /\ PtrDigitsWritten(segs[i])
      /\ SegmentBytes(segs[i])[2] = Ord("z")

\* The null pointer under "{%p}" is written as "0z0"
C22_PointerDigitsWitness ==
  /\ entry = "parseWith"
  /\ pc = "done"
  /\ lit = Str(<<"{", "%", "p", "}">>)
  /\ Values = <<PtrValue(Zero64)>>
  /\ Buf.Bytes = Str(<<"0", "z", "0">>)

\* The field "{:p<3}" over 42 was parsed as a field padding with Pad
PaddedWith(Pad) ==
  /\ Len(segs) = 1
  /\ segs[1].Kind = "Format"
  /\ segs[1].Spec.Pad = Pad
  /\ segs[1].Spec.Align = 3
  /\ Buf.Bytes = <<Ord("4"), Ord("2"), Pad>>

\* C23: "{:p<W}" is a field that pads with p for every pad byte p in
\* 0x20..0x7E, and a field that pads with ' ' for every other pad byte
\* (0x00..0x1F, 0x7F, 0x80..0xFF).
C23_PadByte ==
  \A p \in 0..255 :
    (entry = "parseWith" /\ lit = PadField(p) /\ pc = "done") =>
      PaddedWith(IF p \in 32..126 THEN p ELSE Ord(" "))

\* "{:p<3}" with p = 0x7F pads with 0x7F
C23_Observed ==
  /\ entry = "parseWith"
  /\ lit = PadField(127)
  /\ pc = "done"
  /\ Buf.Bytes = <<Ord("4"), Ord("2"), 127>>
  /\ ~diag

\* "{:{<3}" is the literal "{:" and then no field at all
C23_ObservedBrace ==
  /\ entry = "parseWith"
  /\ lit = PadField(Ord("{"))
  /\ pc = "done"
  /\ Buf.Bytes = <<Ord("{"), Ord(":")>>
  /\ diag

\* What holds of the pad: every pad byte in 0x20..0x7F but the braces pads,
\* and every byte below 0x20 or above 0x7F is replaced with ' '
C23_PadByteKept ==
  \A p \in 0..255 \ {Ord("{"), Ord("}")} :
    (entry = "parseWith" /\ lit = PadField(p) /\ pc = "done") =>
      PaddedWith(IF p \in 32..127 THEN p ELSE Ord(" "))

\* "{:p<3}" with p = 0x80 pads with ' ' and reports the pad
C23_PadByteKeptWitness ==
  /\ entry = "parseWith"
  /\ lit = PadField(128)
  /\ pc = "done"
  /\ Buf.Bytes = <<Ord("4"), Ord("2"), Ord(" ")>>
  /\ diag

\* The tags of the strings
StringTypes == {"CStringType", "StdStringType", "StringViewType"}

\* Whether a value counts as a character, as the value categories state it
CountsAsChar(v, Permissive) ==
  v.Type = "CharType" \/ (Permissive /\ v.Type \in StringTypes)

\* The fields rendered so far with the flag their writer passed
CharTests ==
  {[Value |-> segs[i].Value, Permissive |-> segs[i].Spec.Extra = "Char"] :
     i \in {j \in 1..Len(segs) : segs[j].Kind = "Format"}}

\* C24: isCharType(permissive) is true for a Char value under both values
\* of the flag and, when permissive, for a C string, a std::string and a
\* string view, and false for every other tag; getChar(permissive) on a
\* Char value returns the stored character under both values of the flag.
C24_IsCharType ==
  \A t \in CharTests :
    /\ isCharType(t.Value, t.Permissive) = CountsAsChar(t.Value, t.Permissive)
    /\ t.Value.Type = "CharType" =>
         getChar(t.Value, t.Permissive) = t.Value.Chr

\* The char 'A' under the c extra is not a character, and its getChar is 0
C24_Observed ==
  \E t \in CharTests :
    /\ t.Value = CharValue(Ord("A"))
    /\ t.Permissive
    /\ ~isCharType(t.Value, TRUE)
    /\ getChar(t.Value, TRUE) = 0

\* What holds of isCharType: the claim for every value but a Char under the
\* permissive flag
C24_IsCharTypeOtherwise ==
  \A t \in CharTests :
    ~(t.Value.Type = "CharType" /\ t.Permissive) =>
      /\ isCharType(t.Value, t.Permissive)
           = CountsAsChar(t.Value, t.Permissive)
      /\ t.Value.Type = "CharType" =>
           getChar(t.Value, t.Permissive) = t.Value.Chr

\* A C string under the c extra is a character, its first byte
C24_IsCharTypeOtherwiseWitness ==
  \E t \in CharTests :
    /\ t.Value.Type = "CStringType"
    /\ t.Permissive
    /\ isCharType(t.Value, TRUE)
    /\ getChar(t.Value, TRUE) = Ord("A")

-----------------------------------------------------------------------------
(* The buffer's storage.                                                   *)

\* C25: in every state that construction (of inline size 0 too), pushBack,
\* append, fill, resize, reserve, move (of the source and of the
\* destination) and wipe lead to, a buffer has a capacity of at least 1
\* and a data pointer that is not null.
C25_NeverEmpty ==
  \A id \in BufIds :
    Bufs[id].Alive => (Bufs[id].Capacity >= 1 /\ Bufs[id].Data # nullptr)

\* A buffer whose block was taken by a move has no storage at all
C25_Observed ==
  /\ entry = "testBuf"
  /\ Last.Op = "move"
  /\ Last.Taken
  /\ Bufs[Last.Other].Alive
  /\ Bufs[Last.Other].Data = nullptr
  /\ Bufs[Last.Other].Capacity = 0
  /\ Bufs[Last.Other].Size = 0

\* What holds of the storage: a buffer has a capacity of at least 1 and a
\* data pointer, or it has neither and is empty; it has both unless a move
\* has taken place
C25_EmptyOnlyWhenCleared ==
  \A id \in BufIds :
    Bufs[id].Alive =>
      \/ Bufs[id].Capacity >= 1 /\ Bufs[id].Data # nullptr
      \/ /\ Bufs[id].Capacity = 0
         /\ Bufs[id].Data = nullptr
         /\ Bufs[id].Size = 0
         /\ Last.Op # "none"

\* A buffer of inline size 0 is constructed with a block of capacity 1
C25_EmptyOnlyWhenClearedWitness ==
  /\ entry = "testBuf"
  /\ Last.Op = "none"
  /\ Bufs[1].InlinedSize = 0
  /\ Bufs[1].Capacity = 1
  /\ Bufs[1].Data = HeapPtr(1)

\* Whether the buffer's data pointer is its inline array
UsesInline(B, id) == B[id].InlinedSize > 0 /\ B[id].Data = StoragePtr(id)

\* C26: once the data pointer of a buffer is not its inline array (it has
\* grown beyond the inline capacity, has taken another buffer's block or has
\* been moved from), no operation but wipe makes the inline array its
\* storage again; wipe makes the buffer inline again, with capacity N and
\* length 0.
C26_InlineOnlyByWipe ==
  [][\A id \in BufIds :
       /\ (Bufs[id].InlinedSize > 0 /\ ~UsesInline(Bufs, id)
              /\ UsesInline(Bufs', id))
            => (Last'.Op = "wipe" /\ Last'.Id = id)
       /\ (Last'.Op = "wipe" /\ Last'.Id = id /\ Bufs[id].InlinedSize > 0)
            => /\ UsesInline(Bufs', id)
               /\ Bufs'[id].Capacity = Bufs[id].InlinedSize
               /\ Bufs'[id].Size = 0]_vars

\* A buffer that held more than its inline array holds is wiped: its block
\* is freed and it is inline and empty again
C26_Witness ==
  /\ entry = "testBuf"
  /\ Last.Op = "wipe"
  /\ Bufs[Last.Id].InlinedSize > 0
  /\ Len(Last.Before) > Bufs[Last.Id].InlinedSize
  /\ UsesInline(Bufs, Last.Id)
  /\ Bufs[Last.Id].Capacity = Bufs[Last.Id].InlinedSize
  /\ Bufs[Last.Id].Size = 0
  /\ \E k \in DOMAIN Heap : ~Heap[k].Live

\* A moved-from buffer that had grown stays off its inline array
C26_MovedFromWitness ==
  /\ entry = "testBuf"
  /\ Last.Op = "move"
  /\ Len(Last.OtherBefore) > Bufs[Last.Other].InlinedSize
  /\ ~UsesInline(Bufs, Last.Other)

\* C27: after any sequence of pushBack, append, fill, resize, reserve, move
\* and wipe, the length of every buffer is at most its capacity.
C27_LengthWithinCapacity ==
  \A id \in BufIds : Bufs[id].Alive => Bufs[id].Size <= Bufs[id].Capacity

\* A buffer filled to its capacity after a reallocation, and another call
C27_Witness ==
  /\ entry = "testBuf"
  /\ Ops >= 2
  /\ \E id \in BufIds :
       /\ Bufs[id].Alive
       /\ Bufs[id].Size = Bufs[id].Capacity
       /\ Bufs[id].Capacity > Bufs[id].InlinedSize
       /\ Bufs[id].Size >= 6

-----------------------------------------------------------------------------
(* The arguments.                                                          *)

\* How many arguments the first i dispatched segments consumed
RECURSIVE TakenUpTo(_)
TakenUpTo(i) == IF i = 0 THEN 0 ELSE TakenUpTo(i - 1) + segs[i].Taken

\* The fields among the first i segments
FieldsUpTo(i) == {j \in 1..i : segs[j].Kind = "Format"}

FixedWidth(seg) == seg.Kind = "Format" /\ ~DynamicField(seg.Spec.Data)

\* C28: the arguments are consumed from left to right, each at most once;
\* a literal or an escape consumes none and a field of fixed width exactly
\* one, so that the k-th field renders the k-th argument.
C28_LeftToRight ==
  /\ TakenUpTo(Len(segs)) <= Vs
  /\ Vs <= Len(Values)
  /\ \A i \in 1..Len(segs) :
       /\ segs[i].First = TakenUpTo(i - 1)
       /\ segs[i].Kind = "Literal" => segs[i].Taken = 0
       /\ FixedWidth(segs[i]) => segs[i].Taken = 1
       /\ segs[i].Kind = "Format" =>
            /\ segs[i].Taken \in {1, 2}
            /\ segs[i].Value = Values[segs[i].First + segs[i].Taken]
       /\ (\A j \in FieldsUpTo(i) : FixedWidth(segs[j])) =>
            segs[i].First = Cardinality(FieldsUpTo(i - 1))

\* Two fields of fixed width, a literal between them, and two different
\* arguments: the second field renders the second
C28_Witness ==
  /\ entry = "parseWith"
  /\ pc = "done"
  /\ Len(Values) >= 2
  /\ Values[1] # Values[2]
  /\ \E i, j, k \in 1..Len(segs) :
       /\ i < j /\ j < k
       /\ FixedWidth(segs[i]) /\ segs[i].Value = Values[1]
       /\ segs[j].Kind = "Literal" /\ Len(segs[j].Spec.Data) > 0
       /\ FixedWidth(segs[k]) /\ segs[k].Value = Values[2]
       /\ FieldsUpTo(k) = {i, k}

\* The fields that rendered a null C string as a string
NullStringField(seg) ==
  /\ seg.Kind = "Format"
  /\ seg.Value = NullCString
  /\ seg.Spec.Extra \notin {"Char", "Ptr"}

\* C29: a field over a null C string, without the c or the p extra, writes
\* its W pad bytes and no byte of a value, and the formatting stops there:
\* no later literal or field is appended.
C29_NullStringStops ==
  \A i \in 1..Len(segs) :
    NullStringField(segs[i]) =>
      /\ SegmentBytes(segs[i]) = Repeat(segs[i].Spec.Pad, segs[i].Spec.Align)
      /\ ~segs[i].Ret
      /\ i = Len(segs)
      /\ size(Buf) = segs[i].After
      /\ pc \in {"done", "returned"}

\* "{:#+3}!" over a null C string gives "###", and "!" is never parsed
C29_Witness ==
  /\ entry = "parseWith"
  /\ pc = "done"
  /\ Len(segs) = 1
  /\ NullStringField(segs[1])
  /\ segs[1].Spec.Align = 3
  /\ Buf.Bytes = Str(<<"#", "#", "#">>)
  /\ FormatString = Str(<<"!">>)

-----------------------------------------------------------------------------
(* Termination.                                                            *)

\* The bytes of the view the engine was given (format() passes the
\* terminator of its literal too)
InitialLen == IF entry = "format" THEN Len(lit) + 1 ELSE Len(lit)

C30_StepConsumes ==
  [][(pc = "parse" /\ Len(FormatString) > 0) =>
       (pc' = "done" \/ Len(FormatString') < Len(FormatString))]_vars

\* and every dispatched segment stands for at least one byte of the format
\* string, so that the steps are at most as many as its bytes
C30_StepsBounded ==
  entry \in {"parseWith", "format"} =>
    /\ Len(segs) + Len(FormatString) <= InitialLen
    /\ pc = "body" => Len(segs) + 1 + Len(FormatString) <= InitialLen

\* Three fields and two literals dispatched from eight bytes
C30_StepsBoundedWitness ==
  /\ entry = "parseWith"
  /\ pc = "done"
  /\ Len(lit) = 8
  /\ Len(segs) = 5
  /\ FormatString = <<>>

\* and a call either returns or ends in undefined behaviour
C30_TerminatesUnlessUndefined == <>(pc \in {"done", "returned", "ub"})

====
